---- MODULE Spec2Model ----
(***************************************************************************)
(* The Penguin compiler.                                                   *)
(*                                                                         *)
(* Back end: per-procedure liveness analysis (LivenessAnalyzer),           *)
(* linear-scan register allocation (LinearScanner) and the IR rewriter     *)
(* (IRRewriter), run on one procedure's instruction list in the order      *)
(* RegisterAllocator.allocate_registers runs them (Spec), and build_cfg    *)
(* on its own (CfgSpec).                                                   *)
(*                                                                         *)
(* Front end: the type checker (astTypeChecker.TypeChecker) run on the     *)
(* statements of a program, one step per statement handler (TcSpec).       *)
(*                                                                         *)
(* Sequences are 1-based here: the instruction with Python index i is      *)
(* instructions[i+1]; start and end of a live range are shifted alike.     *)
(***************************************************************************)
EXTENDS Integers, Sequences, FiniteSets, TLC

VARIABLES instructions, num_registers, pc, live_in, live_out, changed,
          allocation, live_ranges, active, spill_counter, avail, pos,
          rewritten, cfg,
          program, agenda, stack, table, current_return_type, raised,
          var_types,
          ir_program, temp_counter, label_counter, visited,
          code, codegen_label_counter, binary_imports, statement_index

\* The state of the back end (liveness, allocation, rewriting).
back_end == <<instructions, num_registers, pc, live_in, live_out, changed,
              allocation, live_ranges, active, spill_counter, avail, pos,
              rewritten>>

\* The state of the type checker: the program being checked, the statements
\* still to be checked, TypeEnv.stack, ProcedureEnv.table, the return type
\* of the procedure being checked, the error raised, if any, and the
\* var_type attribute the handlers that returned have left on the expression
\* nodes.
type_checker == <<program, agenda, stack, table, current_return_type, raised,
                  var_types>>

\* The state of the IRGenerator: the IRProgram it builds, its two counters,
\* and how many statements the second loop of generate has visited.
ir_generator == <<ir_program, temp_counter, label_counter, visited>>

\* The state of the CodeGenerator of codegen.py: the names of the labels
\* defined by the lines of self.code, in the order of the lines, its
\* label_counter, the binary imports registered, in the order they were
\* registered, and how many statements visit_Program has visited.
code_generator ==
    <<code, codegen_label_counter, binary_imports, statement_index>>

vars == <<back_end, cfg, type_checker, ir_generator, code_generator>>

(* ---------------------------- bounds ---------------------------------- *)
MaxBody == 3
MaxParams == 5
MaxCfgLen == 3
MaxStatements == 3
MaxFlowLen == 3

(* ------------------------ program constants --------------------------- *)
DriverRegisters == 4
DefaultRegisters == 6

None == ""

SeqRange(s) == {s[k] : k \in 1..Len(s)}

(* ------------------------- IR instructions ---------------------------- *)
\* One record shape for every instruction class; x and y are the source
\* operands in the order of the constructor's arguments.
IRInstruction(op, dest, x, y, args, label, false_label, arg_index, sym) ==
    [op |-> op, dest |-> dest, x |-> x, y |-> y, args |-> args,
     label |-> label, false_label |-> false_label,
     arg_index |-> arg_index, sym |-> sym]

IRBinaryOp(op, dest, left, right) ==
    IRInstruction("BinaryOp", dest, left, right, <<>>, None, None, 0, op)
IRAssign(dest, src) ==
    IRInstruction("Assign", dest, src, None, <<>>, None, None, 0, None)
IRConstant(dest) ==
    IRInstruction("Constant", dest, None, None, <<>>, None, None, 0, None)
IRLoad(dest, addr) ==
    IRInstruction("Load", dest, addr, None, <<>>, None, None, 0, None)
IRStore(addr, value) ==
    IRInstruction("Store", None, addr, value, <<>>, None, None, 0, None)
IRLabel(name) ==
    IRInstruction("Label", None, None, None, <<>>, name, None, 0, None)
IRJump(label) ==
    IRInstruction("Jump", None, None, None, <<>>, label, None, 0, None)
IRCondJump(condition, true_label, false_label) ==
    IRInstruction("CondJump", None, condition, None, <<>>, true_label,
                  false_label, 0, None)
IRCall(proc_name, args, dest) ==
    IRInstruction("Call", dest, None, None, args, None, None, 0, proc_name)
IRReturn(value) ==
    IRInstruction("Return", None, value, None, <<>>, None, None, 0, None)
IRArgLoad(dest, arg_index) ==
    IRInstruction("ArgLoad", dest, None, None, <<>>, None, None, arg_index,
                  None)

(* --------------------- the procedures analysed ------------------------ *)
ParamNames == <<"p0", "p1", "p2", "p3", "p4", "p5", "p6", "p7">>

\* One ArgLoad(param_i, i) per formal at procedure entry.
ArgLoads(np) == [k \in 1..np |-> IRArgLoad(ParamNames[k], k - 1)]

\* Instructions a procedure body is drawn from: temporaries t0..t2, one
\* label, and (when the procedure has parameters) a read of the last one.
BodyInstrs(np) ==
    { IRConstant("t0"),
      IRBinaryOp("+", "t2", "t0", "t1"),
      IRCall("f", <<"t1", "t2">>, "t0"),
      IRReturn("t0"),
      IRLabel("L0"),
      IRCondJump("t0", "L0", None) }
    \cup (IF np > 0 THEN {IRAssign("t1", ParamNames[np])} ELSE {})

Bodies(np) == UNION {[1..n -> BodyInstrs(np)] : n \in 1..MaxBody}

\* IRGenerator.new_label hands out every label name once.
LabelsUnique(body) ==
    Cardinality({k \in 1..Len(body) : body[k].op = "Label"}) <= 1

(* ------------------------ LivenessAnalyzer ---------------------------- *)
DigitStrings == {"0", "1", "2", "3", "4", "5", "6", "7", "8", "9", "10",
                 "11", "12"}

\* _add_if_var: the set holding name when it is a variable, else empty.
AddIfVar(name) ==
    IF name # None /\ name \notin DigitStrings THEN {name} ELSE {}

DefVars(instr) ==
    IF instr.op \in {"Assign", "BinaryOp", "Constant", "Load", "ArgLoad"}
    THEN {instr.dest}
    ELSE IF instr.op = "Call" /\ instr.dest # None THEN {instr.dest}
    ELSE {}

UseVars(instr) ==
    CASE instr.op = "Assign" -> AddIfVar(instr.x)
      [] instr.op = "BinaryOp" -> AddIfVar(instr.x) \cup AddIfVar(instr.y)
      [] instr.op = "Store" -> AddIfVar(instr.y)
      [] instr.op = "CondJump" -> AddIfVar(instr.x)
      [] instr.op = "Call" ->
            UNION {AddIfVar(instr.args[k]) : k \in 1..Len(instr.args)}
      [] instr.op = "Return" ->
            IF instr.x # None THEN AddIfVar(instr.x) ELSE {}
      [] OTHER -> {}

\* Index of the first Label called name, as a list of zero or one index.
FindLabel(instrs, name) ==
    LET hits == {j \in 1..Len(instrs) :
                    instrs[j].op = "Label" /\ instrs[j].label = name}
    IN IF hits = {} THEN <<>>
       ELSE <<CHOOSE j \in hits : \A k \in hits : j <= k>>

\* build_cfg as it would be with a Return falling through like any other
\* instruction.
CfgReturnFallsThrough(instrs, i) ==
    LET instr == instrs[i]
        next == IF i + 1 <= Len(instrs) THEN <<i + 1>> ELSE <<>>
    IN CASE instr.op = "Jump" -> FindLabel(instrs, instr.label)
         [] instr.op = "CondJump" ->
               FindLabel(instrs, instr.label) \o
               (IF instr.false_label # None
                THEN FindLabel(instrs, instr.false_label)
                ELSE next)
         [] OTHER -> next

\* build_cfg: the successor list of instruction i.
Cfg(instrs, i) ==
    LET instr == instrs[i]
        next == IF i + 1 <= Len(instrs) THEN <<i + 1>> ELSE <<>>
    IN CASE instr.op = "Jump" -> FindLabel(instrs, instr.label)
         [] instr.op = "CondJump" ->
               FindLabel(instrs, instr.label) \o
               (IF instr.false_label # None
                THEN FindLabel(instrs, instr.false_label)
                ELSE next)
         [] instr.op = "Return" -> <<>>
         [] OTHER -> next

\* new_live_in as it would be without the subtraction of def_vars[i].
NewLiveInKeepsDef(use, def, out) == use \cup out

NewLiveIn(use, def, out) == use \cup (out \ def)

\* new_live_out as it would be with the first successor only.
NewLiveOutFirstSuccessor(instrs, i, li) ==
    IF Cfg(instrs, i) = <<>> THEN {} ELSE li[Cfg(instrs, i)[1]]

NewLiveOut(instrs, i, li) == UNION {li[s] : s \in SeqRange(Cfg(instrs, i))}

\* One pass of the for loop of compute_liveness, from index i down to 1,
\* updating the sets in place.
RECURSIVE LivenessPass(_, _, _, _, _)
LivenessPass(instrs, i, li, lo, ch) ==
    IF i = 0 THEN [live_in |-> li, live_out |-> lo, changed |-> ch]
    ELSE LET new_live_in == NewLiveIn(UseVars(instrs[i]), DefVars(instrs[i]),
                                      lo[i])
             new_live_out == NewLiveOut(instrs, i, li)
         IN IF new_live_in # li[i] \/ new_live_out # lo[i]
            THEN LivenessPass(instrs, i - 1,
                              [li EXCEPT ![i] = new_live_in],
                              [lo EXCEPT ![i] = new_live_out], TRUE)
            ELSE LivenessPass(instrs, i - 1, li, lo, ch)

(* -------------------------- LinearScanner ----------------------------- *)
\* self.registers as it would be with the accumulator offered as well.
RegistersWithA == <<"a", "b", "c", "d", "e", "h", "l">>

Registers == <<"b", "c", "d", "e", "h", "l">>

RegisterOrder == <<"b", "c", "d", "e">>

SpillNames == <<"[sp+0]", "[sp+1]", "[sp+2]", "[sp+3]", "[sp+4]", "[sp+5]",
                "[sp+6]", "[sp+7]", "[sp+8]", "[sp+9]">>

\* f"[sp+{n}]"
SpillLoc(n) == SpillNames[n + 1]

LiveRange(var_name, start, end) ==
    [var_name |-> var_name, start |-> start, end |-> end,
     register |-> None, spill_location |-> None]

\* list.sort is stable: order by key, equal keys in their earlier order.
StableSort(s, key) ==
    LET n == Len(s)
        rank(i) == 1 + Cardinality({j \in 1..n :
                         key[j] < key[i] \/ (key[j] = key[i] /\ j < i)})
    IN [r \in 1..n |-> s[CHOOSE i \in 1..n : rank(i) = r]]

\* The orders in which a Python set of names can be iterated.
Orders(S) ==
    {o \in [1..Cardinality(S) -> S] : \A v \in S : \E k \in DOMAIN o : o[k] = v}

Put(map, key, value) ==
    [k \in DOMAIN map \cup {key} |-> IF k = key THEN value ELSE map[k]]

\* allocate_procedure, lines 115-122: (dest, arg_index) of every ArgLoad,
\* sorted by argument index.
ParamVars(instrs) ==
    LET found == SelectSeq(instrs, LAMBDA instr : instr.op = "ArgLoad")
    IN StableSort(found, [k \in 1..Len(found) |-> found[k].arg_index])

\* allocate_procedure, lines 124-128.
RECURSIVE PinParams(_, _, _)
PinParams(param_vars, i, alloc) ==
    IF i > Len(param_vars) THEN alloc
    ELSE PinParams(param_vars, i + 1,
                   IF i <= Len(RegisterOrder)
                   THEN Put(alloc, param_vars[i].dest, RegisterOrder[i])
                   ELSE alloc)

LiveVariables(liveness_info) ==
    UNION {liveness_info[i] : i \in DOMAIN liveness_info}

RangeStart(liveness_info, var) ==
    CHOOSE i \in DOMAIN liveness_info :
        /\ var \in liveness_info[i]
        /\ \A j \in DOMAIN liveness_info : var \in liveness_info[j] => i <= j

\* The end of a range as it would be if it stopped at the first index.
RangeEndFirst(liveness_info, var) == RangeStart(liveness_info, var)

RangeEnd(liveness_info, var) ==
    CHOOSE i \in DOMAIN liveness_info :
        /\ var \in liveness_info[i]
        /\ \A j \in DOMAIN liveness_info : var \in liveness_info[j] => j <= i

\* build_live_ranges, with order the iteration order of the variable set.
BuildLiveRanges(liveness_info, order) ==
    [k \in 1..Len(order) |->
        LiveRange(order[k], RangeStart(liveness_info, order[k]),
                  RangeEnd(liveness_info, order[k]))]

\* The filter of line 134 left out: the pinned parameters stay in the list.
FilterPinnedNothing(lrs, alloc) == lrs

\* allocate_procedure, line 134.
FilterPinned(lrs, alloc) ==
    SelectSeq(lrs, LAMBDA lr : lr.var_name \notin DOMAIN alloc)

\* The sort of line 137 as it would be with __lt__ comparing end points.
SortLiveRangesByEnd(lrs) ==
    StableSort(lrs, [k \in 1..Len(lrs) |-> lrs[k].end])

\* allocate_procedure, line 137, through LiveRange.__lt__.
SortLiveRanges(lrs) ==
    StableSort(lrs, [k \in 1..Len(lrs) |-> lrs[k].start])

SortActive(act) ==
    StableSort(act, [k \in 1..Len(act) |-> act[k].end])

ExpireOldIntervals(act, position) ==
    SelectSeq(act, LAMBDA lr : ~(lr.end < position))

\* get_free_register: the first register no active range holds, or None
\* where the code raises RuntimeError.
GetFreeRegister(act) ==
    LET used_regs == {act[k].register : k \in 1..Len(act)} \ {None}
        free == {k \in 1..Len(Registers) : Registers[k] \notin used_regs}
    IN IF free = {} THEN None
       ELSE Registers[CHOOSE k \in free : \A j \in free : k <= j]

\* The live range object of var inside the list, with changed fields.
SetRange(lrs, var, reg, loc) ==
    [k \in 1..Len(lrs) |->
        IF lrs[k].var_name = var
        THEN [lrs[k] EXCEPT !.register = reg, !.spill_location = loc]
        ELSE lrs[k]]

\* handle_spill's test: the active range with the furthest end is spilled.
SpillsCandidate(spill_candidate, live_range) ==
    spill_candidate.end > live_range.end

(* ---------------------------- IRRewriter ------------------------------ *)
\* str(n) for the numbers a spill frame size can take, and int(s) back.
DecimalNames == <<"0", "1", "2", "3", "4", "5", "6", "7", "8", "9", "10",
                  "11", "12">>

Str(n) == DecimalNames[n + 1]

ParseInt(s) == CHOOSE n \in 0..(Len(DecimalNames) - 1) : DecimalNames[n + 1] = s

\* int(alloc.split('[sp+')[1].split(']')[0])
SpillOffset(alloc) ==
    CHOOSE n \in 0..(Len(SpillNames) - 1) : SpillNames[n + 1] = alloc

\* _is_register, default implementation.
IsRegister(alloc) == alloc \in {"a", "b", "c", "d", "e", "h", "l"}

GetAllocation(var_name, alloc) ==
    IF var_name \in DOMAIN alloc THEN alloc[var_name] ELSE None

IsSpilled(a) == a # None /\ ~IsRegister(a)

GetTempReg == "a"

\* The operand as the rewritten instruction names it, and the reload put
\* before the instruction when the operand lives in a spill slot.
Operand(a, name, temp_reg) ==
    IF IsSpilled(a) THEN temp_reg ELSE IF a = None THEN name ELSE a

Reload(a, temp_reg) == IF IsSpilled(a) THEN <<IRLoad(temp_reg, a)>> ELSE <<>>

RewriteIRAssign(instr, alloc) ==
    LET dest_alloc == GetAllocation(instr.dest, alloc)
        src_alloc == Operand(GetAllocation(instr.x, alloc), instr.x, "a")
        temp_reg == IF src_alloc # "a" THEN "a" ELSE "b"
    IN Reload(GetAllocation(instr.x, alloc), "a") \o
       (IF dest_alloc # None
        THEN IF IsRegister(dest_alloc)
             THEN <<IRAssign(dest_alloc, src_alloc)>>
             ELSE (IF src_alloc # temp_reg
                   THEN <<IRAssign(temp_reg, src_alloc)>> ELSE <<>>)
                  \o <<IRStore(dest_alloc, temp_reg)>>
        ELSE <<instr>>)

RewriteIRBinaryOp(instr, alloc) ==
    LET dest_alloc == GetAllocation(instr.dest, alloc)
        left_alloc == Operand(GetAllocation(instr.x, alloc), instr.x, "a")
        right_alloc == Operand(GetAllocation(instr.y, alloc), instr.y, "b")
    IN Reload(GetAllocation(instr.x, alloc), "a") \o
       Reload(GetAllocation(instr.y, alloc), "b") \o
       (IF dest_alloc # None
        THEN IF IsRegister(dest_alloc)
             THEN <<IRBinaryOp(instr.sym, dest_alloc, left_alloc,
                               right_alloc)>>
             ELSE <<IRBinaryOp(instr.sym, "c", left_alloc, right_alloc),
                    IRStore(dest_alloc, "c")>>
        ELSE <<instr>>)

RewriteIRConstant(instr, alloc) ==
    LET dest_alloc == GetAllocation(instr.dest, alloc)
    IN IF dest_alloc # None
       THEN IF IsRegister(dest_alloc)
            THEN <<IRConstant(dest_alloc)>>
            ELSE <<IRConstant("a"), IRStore(dest_alloc, "a")>>
       ELSE <<instr>>

RewriteIRCondJump(instr, alloc) ==
    LET cond_alloc == Operand(GetAllocation(instr.x, alloc), instr.x, "a")
    IN Reload(GetAllocation(instr.x, alloc), "a") \o
       <<IRCondJump(cond_alloc, instr.label, instr.false_label)>>

RECURSIVE ArgReloads(_, _, _)
ArgReloads(args, k, alloc) ==
    IF k > Len(args) THEN <<>>
    ELSE Reload(GetAllocation(args[k], alloc), GetTempReg) \o
         ArgReloads(args, k + 1, alloc)

RewriteIRCall(instr, alloc) ==
    LET new_args == [k \in 1..Len(instr.args) |->
                        Operand(GetAllocation(instr.args[k], alloc),
                                instr.args[k], GetTempReg)]
        dest_alloc == IF instr.dest # None
                      THEN GetAllocation(instr.dest, alloc) ELSE None
    IN ArgReloads(instr.args, 1, alloc) \o
       (IF dest_alloc # None
        THEN IF IsRegister(dest_alloc)
             THEN <<IRCall(instr.sym, new_args, dest_alloc)>>
             ELSE <<IRCall(instr.sym, new_args, "a"),
                    IRStore(dest_alloc, "a")>>
        ELSE <<IRCall(instr.sym, new_args, instr.dest)>>)

RewriteIRReturn(instr, alloc) ==
    LET value_alloc == GetAllocation(instr.x, alloc)
    IN IF instr.x # None
       THEN IF IsSpilled(value_alloc)
            THEN <<IRLoad("a", value_alloc), IRReturn("a")>>
            ELSE IF value_alloc # None THEN <<IRReturn(value_alloc)>>
            ELSE <<instr>>
       ELSE <<instr>>

RewriteIRArgLoad(instr, alloc) ==
    LET dest_alloc == GetAllocation(instr.dest, alloc)
    IN IF dest_alloc # None
       THEN IF IsRegister(dest_alloc)
            THEN <<IRArgLoad(dest_alloc, instr.arg_index)>>
            ELSE <<IRArgLoad("a", instr.arg_index),
                   IRStore(dest_alloc, "a")>>
       ELSE <<instr>>

\* _rewrite_instruction: dispatch on the instruction class.
RewriteInstruction(instr, alloc) ==
    CASE instr.op = "Assign" -> RewriteIRAssign(instr, alloc)
      [] instr.op = "BinaryOp" -> RewriteIRBinaryOp(instr, alloc)
      [] instr.op = "Constant" -> RewriteIRConstant(instr, alloc)
      [] instr.op = "CondJump" -> RewriteIRCondJump(instr, alloc)
      [] instr.op = "Call" -> RewriteIRCall(instr, alloc)
      [] instr.op = "Return" -> RewriteIRReturn(instr, alloc)
      [] instr.op = "ArgLoad" -> RewriteIRArgLoad(instr, alloc)
      [] OTHER -> <<instr>>

\* The frame size both _generate_prologue and _generate_epilogue compute.
SpillCount(alloc) ==
    LET sizes == {SpillOffset(alloc[v]) + 2 :
                     v \in {w \in DOMAIN alloc : ~IsRegister(alloc[w])}}
    IN IF sizes = {} THEN 0
       ELSE CHOOSE m \in sizes : \A k \in sizes : k <= m

HasSpill(alloc) == \E v \in DOMAIN alloc : ~IsRegister(alloc[v])

GeneratePrologue(alloc) ==
    IF SpillCount(alloc) > 0
    THEN <<IRLabel("f_prologue"),
           IRBinaryOp("-", "sp", "sp", Str(SpillCount(alloc)))>>
    ELSE <<>>

GenerateEpilogue(alloc) ==
    IF SpillCount(alloc) > 0
    THEN <<IRLabel("f_epilogue"),
           IRBinaryOp("+", "sp", "sp", Str(SpillCount(alloc)))>>
    ELSE <<>>

RECURSIVE RewriteBody(_, _, _)
RewriteBody(instrs, k, alloc) ==
    IF k > Len(instrs) THEN <<>>
    ELSE RewriteInstruction(instrs[k], alloc) \o
         RewriteBody(instrs, k + 1, alloc)

RewriteInstructions(instrs, alloc) ==
    (IF HasSpill(alloc) THEN GeneratePrologue(alloc) ELSE <<>>) \o
    RewriteBody(instrs, 1, alloc) \o
    (IF HasSpill(alloc) THEN GenerateEpilogue(alloc) ELSE <<>>)

(* ----------------------------- actions -------------------------------- *)
\* No IRGenerator has been made.
IRGeneratorIdle ==
    /\ ir_program = <<>>
    /\ temp_counter = 0
    /\ label_counter = 0
    /\ visited = 0

\* CodeGenerator.__init__: no line of code yet.
CodeGeneratorIdle ==
    /\ code = <<>>
    /\ codegen_label_counter = 0
    /\ binary_imports = <<>>
    /\ statement_index = 0

\* No program is being type checked.
TypeCheckerIdle ==
    /\ program = <<>>
    /\ agenda = <<>>
    /\ stack = <<>>
    /\ table = <<>>
    /\ current_return_type = None
    /\ raised = None
    /\ var_types = {}

Init ==
    /\ \E np \in 0..MaxParams : \E body \in Bodies(np) :
          /\ LabelsUnique(body)
          /\ instructions = ArgLoads(np) \o body
    /\ num_registers = DriverRegisters
    /\ pc = "analyze"
    /\ live_in = <<>>
    /\ live_out = <<>>
    /\ changed = FALSE
    /\ allocation = <<>>
    /\ live_ranges = <<>>
    /\ active = <<>>
    /\ spill_counter = 0
    /\ avail = 0
    /\ pos = 0
    /\ rewritten = <<>>
    /\ cfg = <<>>
    /\ TypeCheckerIdle
    /\ IRGeneratorIdle
    /\ CodeGeneratorIdle

\* compute_liveness up to the first test of the while loop.
ComputeLivenessStart ==
    /\ pc = "analyze"
    /\ UNCHANGED <<cfg, type_checker, ir_generator, code_generator>>
    /\ live_in' = [i \in 1..Len(instructions) |-> {}]
    /\ live_out' = [i \in 1..Len(instructions) |-> {}]
    /\ changed' = TRUE
    /\ pc' = "liveness"
    /\ UNCHANGED <<instructions, num_registers, allocation, live_ranges,
                   active, spill_counter, avail, pos, rewritten>>

\* The iteration as it would be without the reset of changed at the head
\* of the loop body.
LivenessRoundNoReset ==
    /\ pc = "liveness"
    /\ UNCHANGED <<cfg, type_checker, ir_generator, code_generator>>
    /\ changed
    /\ LET r == LivenessPass(instructions, Len(instructions), live_in,
                             live_out, changed)
       IN /\ live_in' = r.live_in
          /\ live_out' = r.live_out
          /\ changed' = r.changed
    /\ UNCHANGED <<instructions, num_registers, pc, allocation, live_ranges,
                   active, spill_counter, avail, pos, rewritten>>

\* One iteration of the while loop of compute_liveness.
LivenessRound ==
    /\ pc = "liveness"
    /\ UNCHANGED <<cfg, type_checker, ir_generator, code_generator>>
    /\ changed
    /\ LET r == LivenessPass(instructions, Len(instructions), live_in,
                             live_out, FALSE)
       IN /\ live_in' = r.live_in
          /\ live_out' = r.live_out
          /\ changed' = r.changed
    /\ UNCHANGED <<instructions, num_registers, pc, allocation, live_ranges,
                   active, spill_counter, avail, pos, rewritten>>

\* The while loop ends; analyze_instructions returns the live-out sets.
LivenessReturn ==
    /\ pc = "liveness"
    /\ UNCHANGED <<cfg, type_checker, ir_generator, code_generator>>
    /\ ~changed
    /\ pc' = "allocate"
    /\ UNCHANGED <<instructions, num_registers, live_in, live_out, changed,
                   allocation, live_ranges, active, spill_counter, avail,
                   pos, rewritten>>

\* allocate_procedure, lines 111-131: reset, pin the parameters, build the
\* live ranges from the liveness information.
PinAndBuildLiveRanges ==
    /\ pc = "allocate"
    /\ UNCHANGED <<cfg, type_checker, ir_generator, code_generator>>
    /\ active' = <<>>
    /\ spill_counter' = 0
    /\ allocation' = PinParams(ParamVars(instructions), 1, <<>>)
    /\ \E order \in Orders(LiveVariables(live_out)) :
          live_ranges' = BuildLiveRanges(live_out, order)
    /\ pc' = "built"
    /\ UNCHANGED <<instructions, num_registers, live_in, live_out, changed,
                   avail, pos, rewritten>>

\* allocate_procedure, lines 133-141: drop the pinned parameters, sort, and
\* take the parameters off the register count, which is read here for the
\* first time: the scanner was made for the driver's count or for
\* RegisterAllocator's default.
FilterAndSort ==
    /\ pc = "built"
    /\ UNCHANGED <<cfg, type_checker, ir_generator, code_generator>>
    /\ live_ranges' = SortLiveRanges(FilterPinned(live_ranges, allocation))
    /\ num_registers' \in {DriverRegisters, DefaultRegisters}
    /\ avail' = num_registers' - Len(ParamVars(instructions))
    /\ pos' = 1
    /\ pc' = "scan"
    /\ UNCHANGED <<instructions, live_in, live_out, changed, allocation,
                   active, spill_counter, rewritten>>

\* One iteration of the for loop of linear_scan.
LinearScanStep ==
    /\ pc = "scan"
    /\ UNCHANGED <<cfg, type_checker, ir_generator, code_generator>>
    /\ pos <= Len(live_ranges)
    /\ LET live_range == live_ranges[pos]
           act == ExpireOldIntervals(active, live_range.start)
       IN IF Len(act) >= avail
          THEN \* handle_spill
               IF act = <<>>
               THEN \* self.active[-1] raises IndexError
                    /\ pc' = "error"
                    /\ active' = act
                    /\ UNCHANGED <<allocation, live_ranges, spill_counter,
                                   pos>>
               ELSE LET spill_candidate == act[Len(act)]
                        spill_loc == SpillLoc(spill_counter)
                    IN /\ spill_counter' = spill_counter + 1
                       /\ pos' = pos + 1
                       /\ pc' = pc
                       /\ IF SpillsCandidate(spill_candidate, live_range)
                          THEN /\ allocation' =
                                    Put(Put(allocation, live_range.var_name,
                                            spill_candidate.register),
                                        spill_candidate.var_name, spill_loc)
                               /\ live_ranges' =
                                    SetRange(SetRange(live_ranges,
                                        live_range.var_name,
                                        spill_candidate.register, None),
                                      spill_candidate.var_name, None,
                                      spill_loc)
                               /\ active' = SortActive(
                                    [act EXCEPT ![Len(act)] =
                                        [live_range EXCEPT !.register =
                                            spill_candidate.register]])
                          ELSE /\ allocation' =
                                    Put(allocation, live_range.var_name,
                                        spill_loc)
                               /\ live_ranges' =
                                    SetRange(live_ranges, live_range.var_name,
                                             None, spill_loc)
                               /\ active' = act
          ELSE LET reg == GetFreeRegister(act)
               IN IF reg = None
                  THEN \* RuntimeError("No free registers found")
                       /\ pc' = "error"
                       /\ active' = act
                       /\ UNCHANGED <<allocation, live_ranges, spill_counter,
                                      pos>>
                  ELSE /\ allocation' =
                            Put(allocation, live_range.var_name, reg)
                       /\ live_ranges' =
                            SetRange(live_ranges, live_range.var_name, reg,
                                     None)
                       /\ active' = SortActive(Append(act,
                            [live_range EXCEPT !.register = reg]))
                       /\ pos' = pos + 1
                       /\ pc' = pc
                       /\ UNCHANGED spill_counter
    /\ UNCHANGED <<instructions, num_registers, live_in, live_out, changed,
                   avail, rewritten>>

\* linear_scan has run through every range; allocate_procedure restores the
\* register count and returns the allocation map.
AllocateReturn ==
    /\ pc = "scan"
    /\ UNCHANGED <<cfg, type_checker, ir_generator, code_generator>>
    /\ pos > Len(live_ranges)
    /\ pc' = "rewrite"
    /\ UNCHANGED <<instructions, num_registers, live_in, live_out, changed,
                   allocation, live_ranges, active, spill_counter, avail,
                   pos, rewritten>>

\* rewrite_program on the procedure: the rewritten body.
RewriteProcedure ==
    /\ pc = "rewrite"
    /\ UNCHANGED <<cfg, type_checker, ir_generator, code_generator>>
    /\ rewritten' = RewriteInstructions(instructions, allocation)
    /\ pc' = "done"
    /\ UNCHANGED <<instructions, num_registers, live_in, live_out, changed,
                   allocation, live_ranges, active, spill_counter, avail,
                   pos>>

Next ==
    \/ ComputeLivenessStart
    \/ LivenessRound
    \/ LivenessReturn
    \/ PinAndBuildLiveRanges
    \/ FilterAndSort
    \/ LinearScanStep
    \/ AllocateReturn
    \/ RewriteProcedure

Spec == Init /\ [][Next]_vars

(* ------------------ build_cfg on an instruction list ------------------ *)
\* Instructions the lists given to build_cfg are drawn from: jumps to two
\* label names, with and without a false label, the labels, a Return and a
\* plain instruction. A label a jump names may be absent from the list.
CfgInstrs ==
    { IRJump("L0"), IRJump("L1"),
      IRCondJump("t0", "L0", None), IRCondJump("t0", "L0", "L1"),
      IRLabel("L0"), IRLabel("L1"),
      IRReturn("t0"), IRConstant("t0") }

CfgInputs == UNION {[1..n -> CfgInstrs] : n \in 1..MaxCfgLen}

\* IRGenerator.new_label hands out every label name once.
LabelNamesUnique(instrs) ==
    \A i, j \in 1..Len(instrs) :
        (instrs[i].op = "Label" /\ instrs[j] = instrs[i]) => i = j

\* An analyzer that has been given an instruction list and nothing else.
CfgInit ==
    /\ \E instrs \in CfgInputs :
          /\ LabelNamesUnique(instrs)
          /\ instructions = instrs
    /\ num_registers = DriverRegisters
    /\ pc = "cfg"
    /\ live_in = <<>>
    /\ live_out = <<>>
    /\ changed = FALSE
    /\ allocation = <<>>
    /\ live_ranges = <<>>
    /\ active = <<>>
    /\ spill_counter = 0
    /\ avail = 0
    /\ pos = 0
    /\ rewritten = <<>>
    /\ cfg = <<>>
    /\ TypeCheckerIdle
    /\ IRGeneratorIdle
    /\ CodeGeneratorIdle

\* build_cfg: self.cfg maps every index to its successor list.
BuildCfg ==
    /\ pc = "cfg"
    /\ cfg' = [i \in 1..Len(instructions) |-> Cfg(instructions, i)]
    /\ pc' = "cfg_built"
    /\ UNCHANGED <<instructions, num_registers, live_in, live_out, changed,
                   allocation, live_ranges, active, spill_counter, avail,
                   pos, rewritten, type_checker, ir_generator,
                   code_generator>>

CfgNext == BuildCfg

CfgSpec == CfgInit /\ [][CfgNext]_vars

(* --------------- compute_liveness on an instruction list -------------- *)
\* Instructions the lists given to compute_liveness are drawn from: one
\* label with a jump and a conditional jump to it, so that the CFG can have
\* a loop, and definitions and uses of t0 and t1.
FlowInstrs ==
    { IRLabel("L0"), IRJump("L0"), IRCondJump("t0", "L0", None),
      IRConstant("t0"), IRAssign("t1", "t0"),
      IRBinaryOp("+", "t0", "t0", "t1"), IRReturn("t1") }

FlowInputs == UNION {[1..n -> FlowInstrs] : n \in 1..MaxFlowLen}

\* An analyzer that has been given an instruction list, ahead of
\* compute_liveness.
FlowInit ==
    /\ \E instrs \in FlowInputs :
          /\ LabelNamesUnique(instrs)
          /\ instructions = instrs
    /\ num_registers = DriverRegisters
    /\ pc = "analyze"
    /\ live_in = <<>>
    /\ live_out = <<>>
    /\ changed = FALSE
    /\ allocation = <<>>
    /\ live_ranges = <<>>
    /\ active = <<>>
    /\ spill_counter = 0
    /\ avail = 0
    /\ pos = 0
    /\ rewritten = <<>>
    /\ cfg = <<>>
    /\ TypeCheckerIdle
    /\ IRGeneratorIdle
    /\ CodeGeneratorIdle

FlowNext ==
    \/ ComputeLivenessStart
    \/ LivenessRound
    \/ LivenessReturn

\* compute_liveness is sequential code: it takes its next step as long as
\* it has one.
FlowSpec == FlowInit /\ [][FlowNext]_vars /\ WF_vars(FlowNext)

(* ---------------------- astTypes and customErrors --------------------- *)
\* A Type is written by the name of its class; Type.__eq__ compares the
\* classes, and ListType.__eq__ the element types, so that two types are
\* equal exactly when their names here are equal.
IntType == "IntType"
StringType == "StringType"
VoidType == "VoidType"
TilesetType == "TilesetType"
TileMapType == "TileMapType"
SpriteType == "SpriteType"
OAMEntryType == "OAMEntryType"
ListType(element_type) == "ListType(" \o element_type \o ")"

TypeMismatchError == "TypeMismatchError"
UndeclaredVariableError == "UndeclaredVariableError"
DuplicateDeclarationError == "DuplicateDeclarationError"
InvalidTypeError == "InvalidTypeError"
InvalidAttributeError == "InvalidAttributeError"
TypeError == "TypeError"
\* Python's own error for an attribute or a method read on None.
AttributeError == "AttributeError"

Errors ==
    {TypeMismatchError, UndeclaredVariableError, DuplicateDeclarationError,
     InvalidTypeError, InvalidAttributeError, TypeError, AttributeError}

(* ----------------------------- AST nodes ------------------------------ *)
\* A node is a record of its class name and the attributes the type checker
\* reads.  A missing node (Python None) is NoNode.
NoNode == [class |-> "NoneType"]

Declaration(var_type, name) ==
    [class |-> "Declaration", var_type |-> var_type, name |-> name]
Assignment(target, value) ==
    [class |-> "Assignment", target |-> target, value |-> value]
Initialization(var_type, name, value) ==
    [class |-> "Initialization", var_type |-> var_type, name |-> name,
     value |-> value]
ListInitialization(name, values) ==
    [class |-> "ListInitialization", name |-> name, values |-> values]
Conditional(condition, then_body, else_body) ==
    [class |-> "Conditional", condition |-> condition,
     then_body |-> then_body, else_body |-> else_body]
Loop(condition, body) ==
    [class |-> "Loop", condition |-> condition, body |-> body]
Return(value) == [class |-> "Return", value |-> value]
ProcedureCallStatement(call) ==
    [class |-> "ProcedureCallStatement", call |-> call]
BinaryOp(left, op, right) ==
    [class |-> "BinaryOp", left |-> left, op |-> op, right |-> right]
UnaryOp(op, operand) ==
    [class |-> "UnaryOp", op |-> op, operand |-> operand]
IntegerLiteral(value) == [class |-> "IntegerLiteral", value |-> value]
StringLiteral(value) == [class |-> "StringLiteral", value |-> value]
Variable(name) == [class |-> "Variable", name |-> name]
\* The name of a ListAccess, of an AttributeAccess and of a ProcedureCall is
\* the node visitName builds: a Variable, or an access on one.
ListAccess(name, indices) ==
    [class |-> "ListAccess", name |-> name, indices |-> indices]
AttributeAccess(name, attribute) ==
    [class |-> "AttributeAccess", name |-> name, attribute |-> attribute]
\* The checker reads the arguments of a call as node.params.
ProcedureCall(name, params) ==
    [class |-> "ProcedureCall", name |-> name, params |-> params]
ProcedureDef(return_type, name, params, body) ==
    [class |-> "ProcedureDef", return_type |-> return_type, name |-> name,
     params |-> params, body |-> body]

(* ------------------------ TypeEnv, ProcedureEnv ----------------------- *)
\* TypeEnv.stack is a sequence of scopes, the innermost last; a scope is a
\* function from the names it binds to their types.
EmptyScope == [name \in {} |-> None]

push(stk) == Append(stk, EmptyScope)

\* TypeEnv.pop as it would be if it left the stack alone.
pop_nothing(stk) == stk

pop(stk) == SubSeq(stk, 1, Len(stk) - 1)

current_scope(stk) == stk[Len(stk)]

define(stk, name, typ) ==
    [stk EXCEPT ![Len(stk)] =
        [n \in DOMAIN @ \cup {name} |-> IF n = name THEN typ ELSE @[n]]]

\* TypeEnv.lookup: the innermost scope that binds the name decides.
lookup(stk, name) ==
    LET binding == {k \in 1..Len(stk) : name \in DOMAIN stk[k]}
    IN  IF binding = {} THEN None
        ELSE stk[CHOOSE k \in binding : \A j \in binding : j <= k][name]

\* ProcedureEnv.define and ProcedureEnv.lookup on the table.
procedures_define(tbl, name, params, return_type) ==
    [n \in DOMAIN tbl \cup {name} |->
        IF n = name THEN [params |-> params, return_type |-> return_type]
        ELSE tbl[n]]

\* An Optional entry: the empty sequence is None.
procedures_lookup(tbl, name) ==
    IF name \in DOMAIN tbl THEN <<tbl[name]>> ELSE <<>>

\* initialize_hardware_elements: the predefined symbols and procedures.
hardware_symbols ==
    [n \in {"display_tileset_block_0", "display_tileset_block_1",
            "display_tileset_block_2", "display_tilemap0",
            "display_oam_x", "display_oam_y", "display_oam_tile",
            "display_oam_attr"} |->
        CASE n \in {"display_tileset_block_0", "display_tileset_block_1",
                    "display_tileset_block_2"} -> TilesetType
          [] n = "display_tilemap0" -> TileMapType
          [] OTHER -> ListType(IntType)]

hardware_procedures ==
    [n \in {"control_LCDon", "control_LCDoff", "control_waitVBlank",
            "control_updateInput", "control_initPalette",
            "control_initDisplayRegs", "control_checkLeft",
            "control_checkRight", "control_checkUp", "control_checkDown",
            "control_checkA", "control_checkB", "control_checkStart",
            "control_checkSelect"} |->
        [params |-> <<>>,
         return_type |->
            IF n \in {"control_LCDon", "control_LCDoff", "control_waitVBlank",
                      "control_updateInput", "control_initPalette",
                      "control_initDisplayRegs"}
            THEN VoidType ELSE IntType]]

(* ----------------------- TypeChecker: expressions --------------------- *)
\* str.lower on the spellings of a type name that occur.
lower(type_str) ==
    CASE type_str = "Int" -> "int"
      [] type_str = "Sprite" -> "sprite"
      [] OTHER -> type_str

\* string_to_type: the Type of a type string, or InvalidTypeError.
string_to_type(type_str) ==
    LET dictionary ==
            [s \in {"int", "tileset", "tilemap", "sprite", "string", "void",
                    "oamentry", "list"} |->
                CASE s = "int" -> IntType
                  [] s = "tileset" -> TilesetType
                  [] s = "tilemap" -> TileMapType
                  [] s = "sprite" -> SpriteType
                  [] s = "string" -> StringType
                  [] s = "void" -> VoidType
                  [] s = "oamentry" -> OAMEntryType
                  [] s = "list" -> ListType(IntType)]
    IN  IF lower(type_str) \in DOMAIN dictionary
        THEN dictionary[lower(type_str)]
        ELSE InvalidTypeError

\* get_procedure_name: a node with a name and an attribute gives the name of
\* its base, a dot and the attribute; any other node with a name gives the
\* name of its name; a string is the name itself.
RECURSIVE get_procedure_name(_)
get_procedure_name(node) ==
    CASE node.class = "AttributeAccess" ->
            get_procedure_name(node.name) \o "." \o node.attribute
      [] node.class = "Variable" -> node.name
      [] OTHER -> get_procedure_name(node.name)

\* ASTNode.__repr__ on the nodes a name is made of.
RECURSIVE repr(_)
repr(node) ==
    CASE node.class = "Variable" -> "Variable(name='" \o node.name \o "')"
      [] node.class = "AttributeAccess" ->
            "AttributeAccess(name=" \o repr(node.name) \o ", attribute='"
                \o node.attribute \o "')"
      [] OTHER -> node.class \o "(...)"

\* construct_path of check_AttributeAccess, lines 499-510; attribute is the
\* attribute of the node being checked.
RECURSIVE construct_path(_, _)
construct_path(name_path, attribute) ==
    CASE name_path.class = "AttributeAccess" ->
            construct_path(name_path.name, attribute) \o "."
                \o name_path.attribute
      [] name_path.class = "Variable" -> name_path.name \o "." \o attribute
      [] OTHER -> repr(name_path.name) \o "." \o attribute

\* Type.is_indexable and its overrides.
is_indexable(type) == type \in {TilesetType, TileMapType, ListType(IntType)}

\* index_result_type of an indexable type; every list has int elements.
index_result_type(type) == IF is_indexable(type) THEN IntType ELSE None

BinaryOperators ==
    {"*", "+", "-", "<<", ">>", "<", ">", "<=", ">=", "==", "!=", "&", "^",
     "|", "and", "or"}

UnaryOperators == {"-", "+", "~", "not"}

\* check_node on an expression: the type the handler of the node's class
\* returns, or the error it raises.  An error raised while a child is
\* checked is the error of the parent.
RECURSIVE check_node(_, _, _)
RECURSIVE check_arguments(_, _, _, _, _)

RECURSIVE check_indices(_, _, _, _)

\* check_ProcedureCall, lines 588-596: the arguments from the i-th on.
check_arguments(params, param_types, i, stk, tbl) ==
    IF i > Len(params) THEN None
    ELSE LET actual_type == check_node(params[i], stk, tbl)
         IN  IF actual_type \in Errors THEN actual_type
             ELSE IF actual_type # param_types[i][2] THEN TypeMismatchError
             ELSE check_arguments(params, param_types, i + 1, stk, tbl)

check_BinaryOp(node, stk, tbl) ==
    LET left_type == check_node(node.left, stk, tbl)
        right_type == check_node(node.right, stk, tbl)
    IN  IF left_type \in Errors THEN left_type
        ELSE IF right_type \in Errors THEN right_type
        ELSE IF node.op \in BinaryOperators THEN IntType
        ELSE TypeError

check_UnaryOp(node, stk, tbl) ==
    LET operand_type == check_node(node.operand, stk, tbl)
    IN  IF operand_type \in Errors THEN operand_type
        ELSE IF node.op \in UnaryOperators THEN IntType
        ELSE TypeError

check_Variable(node, stk) ==
    IF lookup(stk, node.name) = None THEN UndeclaredVariableError
    ELSE lookup(stk, node.name)

\* check_ListAccess, lines 479-483: the indices from the i-th on.
check_indices(indices, i, stk, tbl) ==
    IF i > Len(indices) THEN None
    ELSE LET index_type == check_node(indices[i], stk, tbl)
         IN  IF index_type \in Errors THEN index_type
             ELSE IF index_type # IntType THEN TypeMismatchError
             ELSE check_indices(indices, i + 1, stk, tbl)

\* check_ListAccess on a node whose name is a node.  A base whose check
\* returned None has no is_indexable to call.
check_ListAccess(node, stk, tbl) ==
    LET base_type == check_node(node.name, stk, tbl)
        indices == check_indices(node.indices, 1, stk, tbl)
    IN  IF base_type \in Errors THEN base_type
        ELSE IF base_type = None THEN AttributeError
        ELSE IF ~is_indexable(base_type) THEN TypeMismatchError
        ELSE IF indices \in Errors THEN indices
        ELSE index_result_type(base_type)

\* check_AttributeAccess: TypeEnv.lookup returns None for a path it does not
\* hold and raises nothing, so the handler returns at line 520 with what
\* the lookup gave, and lines 525-554 are never reached.
check_AttributeAccess(node, stk) ==
    LET base_name == construct_path(node.name, node.attribute)
        full_path == base_name \o "." \o node.attribute
        var_type == lookup(stk, full_path)
    IN  var_type

check_ProcedureCall(node, stk, tbl) ==
    LET proc == procedures_lookup(tbl, get_procedure_name(node))
    IN  IF proc = <<>> THEN UndeclaredVariableError
        ELSE IF Len(node.params) # Len(proc[1].params) THEN TypeMismatchError
        ELSE LET args == check_arguments(node.params, proc[1].params, 1,
                                         stk, tbl)
             IN  IF args \in Errors THEN args ELSE proc[1].return_type

check_node(node, stk, tbl) ==
    CASE node.class = "IntegerLiteral" -> IntType
      [] node.class = "StringLiteral" -> StringType
      [] node.class = "Variable" -> check_Variable(node, stk)
      [] node.class = "BinaryOp" -> check_BinaryOp(node, stk, tbl)
      [] node.class = "UnaryOp" -> check_UnaryOp(node, stk, tbl)
      [] node.class = "ProcedureCall" -> check_ProcedureCall(node, stk, tbl)
      [] node.class = "ListAccess" -> check_ListAccess(node, stk, tbl)
      [] node.class = "AttributeAccess" -> check_AttributeAccess(node, stk)
      [] OTHER -> TypeError

\* node.var_type of an expression node after its handler has returned: the
\* one-element sequence of what the handler stored, or the empty sequence
\* when no line has stored anything.
Stored(node, var_type) == [node |-> node, var_type |-> var_type]

\* What check_node(node) stores in the nodes it reaches; a handler that
\* raises stores nothing after the raise.
RECURSIVE annotate(_, _, _)
RECURSIVE annotate_all(_, _, _, _, _)

\* The test a handler makes on the type of a node it has checked, against
\* the type expected at its place ("*" for any).
passes(type, expected) ==
    type \notin Errors /\ (expected = "*" \/ type = expected)

\* The nodes of a list checked one after another (arguments, indices,
\* list values); the loop ends at the first one that fails.
annotate_all(nodes, expected, i, stk, tbl) ==
    IF i > Len(nodes) THEN {}
    ELSE annotate(nodes[i], stk, tbl)
         \cup IF passes(check_node(nodes[i], stk, tbl), expected[i])
               THEN annotate_all(nodes, expected, i + 1, stk, tbl)
               ELSE {}

\* The nodes whose types the handler of a node looks at: the node and
\* the operands it checks itself.
operands(node) ==
    CASE node.class = "BinaryOp" -> {node, node.left, node.right}
      [] node.class = "ListAccess" -> {node, node.name}
      [] OTHER -> {node}

\* What the handler of the node stores, type[n] being what check_node
\* returns for n.
annotate_typed(node, type, stk, tbl) ==
    CASE node.class \in {"IntegerLiteral", "StringLiteral"} ->
            {Stored(node, <<type[node]>>)}
      [] node.class = "Variable" ->
            IF type[node] \in Errors THEN {}
            ELSE {Stored(node, <<type[node]>>)}
      [] node.class = "BinaryOp" ->
            \* line 362 stores the type of the right operand
            annotate_all(<<node.left, node.right>>, <<"*", "*">>, 1,
                         stk, tbl)
            \cup IF type[node.left] \in Errors
                     \/ type[node.right] \in Errors
                  THEN {}
                  ELSE {Stored(node, <<type[node.right]>>)}
      [] node.class = "UnaryOp" ->
            annotate(node.operand, stk, tbl)
            \cup IF type[node] \in Errors THEN {}
                  ELSE {Stored(node, <<type[node]>>)}
      [] node.class = "ProcedureCall" ->
            LET proc == procedures_lookup(tbl, get_procedure_name(node))
            IN  IF proc = <<>> THEN {}
                ELSE IF Len(node.params) # Len(proc[1].params) THEN {}
                ELSE annotate_all(node.params,
                                  [k \in 1..Len(node.params) |->
                                      proc[1].params[k][2]],
                                  1, stk, tbl)
                     \cup IF type[node] \in Errors THEN {}
                           ELSE {Stored(node, <<type[node]>>)}
      [] node.class = "ListAccess" ->
            \* line 457 stores IntType before anything is checked
            {Stored(node, <<IntType>>)}
            \cup annotate(node.name, stk, tbl)
            \cup IF type[node.name] \in Errors
                     \/ ~is_indexable(type[node.name])
                  THEN {}
                  ELSE annotate_all(node.indices,
                                    [k \in 1..Len(node.indices) |->
                                        IntType],
                                    1, stk, tbl)
      [] node.class = "AttributeAccess" ->
            \* no line of check_AttributeAccess stores a type
            {Stored(node, <<>>)}
      [] OTHER -> {}

annotate(node, stk, tbl) ==
    annotate_typed(node,
                   [n \in operands(node) |-> check_node(n, stk, tbl)],
                   stk, tbl)

(* ----------------------- TypeChecker: statements ---------------------- *)
\* The test as it would be if it looked at the outermost scope only.
already_declared_globally(stk, name) ==
    lookup(stk, name) # None /\ name \in DOMAIN stk[1]

\* The test both check_Declaration (lines 190-191) and its two siblings
\* make before they bind a name.
already_declared(stk, name) ==
    lookup(stk, name) # None /\ name \in DOMAIN current_scope(stk)

\* check_Initialization, lines 253-259, on the two types.
initialization_error(var_type, value_type) ==
    IF var_type # value_type
    THEN IF var_type \in {TilesetType, TileMapType, SpriteType}
            /\ value_type = StringType
         THEN None
         ELSE TypeMismatchError
    ELSE None

\* check_ListInitialization, lines 280-284: the values from the i-th on.
RECURSIVE check_values(_, _, _, _)
check_values(values, i, stk, tbl) ==
    IF i > Len(values) THEN None
    ELSE LET value_type == check_node(values[i], stk, tbl)
         IN  IF value_type \in Errors THEN value_type
             ELSE IF value_type # IntType THEN TypeMismatchError
             ELSE check_values(values, i + 1, stk, tbl)

\* The test on the two types as it would be without the case of a sprite
\* value and an int target.
assignment_error_strict(target_type, value_type) ==
    IF target_type # value_type THEN TypeMismatchError
    ELSE IF target_type \in {TileMapType, TilesetType, SpriteType}
         THEN TypeMismatchError
         ELSE None

\* check_Assignment, lines 217-227, on the two types.
assignment_error(target_type, value_type) ==
    IF target_type # value_type
    THEN IF value_type = SpriteType /\ target_type = IntType
         THEN None
         ELSE TypeMismatchError
    ELSE IF target_type \in {TileMapType, TilesetType, SpriteType}
         THEN TypeMismatchError
         ELSE None

\* The expressions the handler of a statement checks, in the order of its
\* code.
checked(stmt) ==
    CASE stmt.class = "Assignment" -> <<stmt.target, stmt.value>>
      [] stmt.class = "Initialization" -> <<stmt.value>>
      [] stmt.class = "ListInitialization" -> stmt.values
      [] stmt.class \in {"Conditional", "Loop"} -> <<stmt.condition>>
      [] stmt.class = "Return" -> <<stmt.value>>
      [] stmt.class = "ProcedureCallStatement" -> <<stmt.call>>
      [] OTHER -> <<>>

\* The TypeEnv the expressions of a statement are checked in, or None when
\* the handler raises before it checks any: the two initializations bind
\* the name first.
scope_of(stmt, stk) ==
    CASE stmt.class = "Initialization" ->
            IF already_declared(stk, stmt.name)
               \/ string_to_type(stmt.var_type) \in Errors
            THEN None
            ELSE define(stk, stmt.name, string_to_type(stmt.var_type))
      [] stmt.class = "ListInitialization" ->
            IF already_declared(stk, stmt.name) THEN None
            ELSE define(stk, stmt.name, ListType(IntType))
      [] OTHER -> stk

\* What the handler of a statement stores in the expression nodes of the
\* statement, with the TypeEnv and the table it is entered with; only the
\* values of a list are checked against a type in the loop itself.
annotations(stmt, stk, tbl) ==
    IF scope_of(stmt, stk) = None THEN {}
    ELSE annotate_all(checked(stmt),
                      [k \in 1..Len(checked(stmt)) |->
                          IF stmt.class = "ListInitialization"
                          THEN IntType ELSE "*"],
                      1, scope_of(stmt, stk), tbl)

\* The error of a Return as it would be without the test of lines 346-349
\* on a void procedure.
return_error_by_type(node, stk, tbl, return_type) ==
    LET value_type == check_node(node.value, stk, tbl)
    IN  IF value_type \in Errors THEN value_type
        ELSE IF return_type = None THEN TypeError
        ELSE IF value_type # return_type THEN TypeMismatchError
        ELSE None

\* check_Return, lines 332-351: the error the statement raises, or None.
return_error(node, stk, tbl, return_type) ==
    LET value_type == check_node(node.value, stk, tbl)
    IN  IF value_type \in Errors THEN value_type
        ELSE IF return_type = None THEN TypeError
        ELSE IF value_type # return_type THEN TypeMismatchError
        ELSE IF return_type = VoidType /\ node.value # NoNode
             THEN TypeMismatchError
        ELSE None

\* check_ProcedureDef, lines 612-615: the (name, type) pairs of the
\* parameters.
param_types_of(params) ==
    [i \in 1..Len(params) |->
        <<params[i].name, string_to_type(params[i].var_type)>>]

\* check_ProcedureDef, line 618.
return_type_of(node) ==
    IF node.return_type # None THEN string_to_type(node.return_type)
    ELSE VoidType

\* check_ProcedureDef, lines 630-633: the parameters from the i-th on
\* bound in the innermost scope, a later one over an earlier one.
RECURSIVE define_params(_, _, _)
define_params(stk, params, i) ==
    IF i > Len(params) THEN stk
    ELSE define_params(
             define(stk, params[i].name, string_to_type(params[i].var_type)),
             params, i + 1)

\* The user procedures of the statements from the i-th on, added to a
\* table.
RECURSIVE define_procedures(_, _, _)
define_procedures(tbl, statements, i) ==
    IF i > Len(statements) THEN tbl
    ELSE define_procedures(
             IF statements[i].class = "ProcedureDef"
             THEN procedures_define(tbl, statements[i].name,
                                    param_types_of(statements[i].params),
                                    return_type_of(statements[i]))
             ELSE tbl,
             statements, i + 1)

\* The table as a pass over the whole program ahead of the loop would
\* leave it.
procedures_after_pass(statements) ==
    define_procedures(hardware_procedures, statements, 1)

\* ProcedureEnv.table when the loop of check_program starts on the
\* statements: what _init_predefined_elements put there, as check_program
\* does nothing ahead of its loop.
procedures_at_entry(statements) == hardware_procedures

\* An entry of the agenda: a statement still to be checked and the list it
\* stands in.
Item(stmt, within) == [stmt |-> stmt, within |-> within]

Items(stmts, within) == [i \in 1..Len(stmts) |-> Item(stmts[i], within)]

\* The rest of check_ProcedureDef (lines 643-647), run once the body has
\* been checked, with the previous_return_type saved at line 636.
ProcedureDefRest(previous_return_type, within) ==
    Item([class |-> "ProcedureDef.rest",
          previous_return_type |-> previous_return_type], within)

(* --------------------- the programs type checked ---------------------- *)
\* Two procedures whose definitions are accepted on their own, one that
\* binds its parameter again, one void procedure that returns the value of
\* a void call, and one whose return value is a variable of the caller's
\* scope.
ProcedureDefs ==
    { ProcedureDef("int", "f", <<>>,
          <<Declaration("sprite", "x"), Return(IntegerLiteral(1))>>),
      ProcedureDef("void", "g", <<Declaration("int", "x")>>,
          <<Declaration("sprite", "x")>>),
      ProcedureDef("void", "g", <<>>,
          <<Return(ProcedureCall(Variable("control_LCDon"), <<>>))>>),
      ProcedureDef("int", "h", <<>>, <<Return(Variable("x"))>>) }

\* The statements of a program: declarations of x with two types, an
\* initialization and a list initialization of y, assignments of x to y
\* and to itself, a return, a call of f, the procedure definitions, a
\* conditional whose else-body uses the name its then-body declares, and a
\* loop whose body declares y.
Statements ==
    { Declaration("int", "x"),
      Declaration("sprite", "x"),
      Initialization("int", "y", UnaryOp("not", Variable("x"))),
      ListInitialization("y", <<IntegerLiteral(1)>>),
      Assignment(Variable("y"), Variable("x")),
      Assignment(Variable("x"), Variable("x")),
      Assignment(Variable("y"),
                 BinaryOp(Variable("y"), "+", Variable("x"))),
      Return(Variable("x")),
      ProcedureCallStatement(ProcedureCall(Variable("f"), <<>>)),
      Conditional(IntegerLiteral(1),
                  <<Declaration("int", "x")>>,
                  <<Assignment(Variable("x"), IntegerLiteral(2))>>),
      Loop(IntegerLiteral(1), <<Declaration("int", "y")>>) }
    \cup ProcedureDefs

Programs == UNION {[1..n -> Statements] : n \in 1..MaxStatements}

(* ------------------------ TypeChecker: actions ------------------------ *)
\* No procedure is being compiled by the back end.
BackEndIdle ==
    /\ instructions = <<>>
    /\ num_registers = DriverRegisters
    /\ pc = "check_program"
    /\ live_in = <<>>
    /\ live_out = <<>>
    /\ changed = FALSE
    /\ allocation = <<>>
    /\ live_ranges = <<>>
    /\ active = <<>>
    /\ spill_counter = 0
    /\ avail = 0
    /\ pos = 0
    /\ rewritten = <<>>
    /\ cfg = <<>>

\* TypeChecker.__init__ followed by the entry of check_program.
TcInit ==
    /\ BackEndIdle
    /\ IRGeneratorIdle
    /\ CodeGeneratorIdle
    /\ program \in Programs
    /\ agenda = Items(program, "Program.statements")
    /\ stack = <<hardware_symbols>>
    /\ table = procedures_at_entry(program)
    /\ current_return_type = None
    /\ raised = None
    /\ var_types = {}

\* check_node is at a statement of the given class.
Checking(class) ==
    /\ pc = "check_program"
    /\ raised = None
    /\ agenda # <<>>
    /\ Head(agenda).stmt.class = class

\* The handler raises: the check ends at this statement.
Raise(error) ==
    /\ raised' = error
    /\ var_types' =
          var_types \cup annotations(Head(agenda).stmt, stack, table)
    /\ UNCHANGED <<program, agenda, table, current_return_type>>

\* The handler returns: check_node goes on with the statements given and
\* then with those that follow this one.
ReturnTo(stmts) ==
    /\ agenda' = stmts \o Tail(agenda)
    /\ var_types' =
          var_types \cup annotations(Head(agenda).stmt, stack, table)
    /\ UNCHANGED <<program, raised>>

CheckDeclaration ==
    /\ Checking("Declaration")
    /\ UNCHANGED <<back_end, cfg, ir_generator, code_generator>>
    /\ LET node == Head(agenda).stmt
           var_type == string_to_type(node.var_type)
       IN  IF already_declared(stack, node.name)
           THEN Raise(DuplicateDeclarationError) /\ UNCHANGED stack
           ELSE IF var_type \in Errors
           THEN Raise(var_type) /\ UNCHANGED stack
           ELSE /\ stack' = define(stack, node.name, var_type)
                /\ ReturnTo(<<>>)
                /\ UNCHANGED <<table, current_return_type>>

CheckInitialization ==
    /\ Checking("Initialization")
    /\ UNCHANGED <<back_end, cfg, ir_generator, code_generator>>
    /\ LET node == Head(agenda).stmt
           var_type == string_to_type(node.var_type)
           defined == define(stack, node.name, var_type)
           value_type == check_node(node.value, defined, table)
       IN  IF already_declared(stack, node.name)
           THEN Raise(DuplicateDeclarationError) /\ UNCHANGED stack
           ELSE IF var_type \in Errors
           THEN Raise(var_type) /\ UNCHANGED stack
           ELSE IF value_type \in Errors
           THEN Raise(value_type) /\ stack' = defined
           ELSE IF initialization_error(var_type, value_type) # None
           THEN /\ Raise(initialization_error(var_type, value_type))
                /\ stack' = defined
           ELSE /\ stack' = defined
                /\ ReturnTo(<<>>)
                /\ UNCHANGED <<table, current_return_type>>

CheckListInitialization ==
    /\ Checking("ListInitialization")
    /\ UNCHANGED <<back_end, cfg, ir_generator, code_generator>>
    /\ LET node == Head(agenda).stmt
           defined == define(stack, node.name, ListType(IntType))
           values == check_values(node.values, 1, defined, table)
       IN  IF already_declared(stack, node.name)
           THEN Raise(DuplicateDeclarationError) /\ UNCHANGED stack
           ELSE IF values # None
           THEN Raise(values) /\ stack' = defined
           ELSE /\ stack' = defined
                /\ ReturnTo(<<>>)
                /\ UNCHANGED <<table, current_return_type>>

CheckAssignment ==
    /\ Checking("Assignment")
    /\ UNCHANGED <<back_end, cfg, ir_generator, code_generator, stack>>
    /\ LET node == Head(agenda).stmt
           target_type == check_node(node.target, stack, table)
           value_type == check_node(node.value, stack, table)
       IN  IF target_type \in Errors THEN Raise(target_type)
           ELSE IF value_type \in Errors THEN Raise(value_type)
           ELSE IF assignment_error(target_type, value_type) # None
           THEN Raise(assignment_error(target_type, value_type))
           ELSE ReturnTo(<<>>) /\ UNCHANGED <<table, current_return_type>>

\* check_Conditional: the bodies are checked by the same check_node calls,
\* on the same TypeEnv, as the statements around the Conditional.
CheckConditional ==
    /\ Checking("Conditional")
    /\ UNCHANGED <<back_end, cfg, ir_generator, code_generator, stack>>
    /\ LET node == Head(agenda).stmt
           condition_type == check_node(node.condition, stack, table)
       IN  IF condition_type \in Errors THEN Raise(condition_type)
           ELSE IF condition_type # IntType THEN Raise(TypeMismatchError)
           ELSE /\ ReturnTo(Items(node.then_body, "Conditional.then_body")
                            \o Items(node.else_body, "Conditional.else_body"))
                /\ UNCHANGED <<table, current_return_type>>

\* check_Loop with a scope of its own for the body.
CheckLoopNested ==
    /\ Checking("Loop")
    /\ UNCHANGED <<back_end, cfg, ir_generator, code_generator>>
    /\ LET node == Head(agenda).stmt
           condition_type == check_node(node.condition, stack, table)
       IN  IF condition_type \in Errors
           THEN Raise(condition_type) /\ UNCHANGED stack
           ELSE IF condition_type # IntType
           THEN Raise(TypeMismatchError) /\ UNCHANGED stack
           ELSE /\ stack' = push(stack)
                /\ ReturnTo(Items(node.body, "Loop.body"))
                /\ UNCHANGED <<table, current_return_type>>

CheckLoop ==
    /\ Checking("Loop")
    /\ UNCHANGED <<back_end, cfg, ir_generator, code_generator, stack>>
    /\ LET node == Head(agenda).stmt
           condition_type == check_node(node.condition, stack, table)
       IN  IF condition_type \in Errors THEN Raise(condition_type)
           ELSE IF condition_type # IntType THEN Raise(TypeMismatchError)
           ELSE /\ ReturnTo(Items(node.body, "Loop.body"))
                /\ UNCHANGED <<table, current_return_type>>

CheckReturn ==
    /\ Checking("Return")
    /\ UNCHANGED <<back_end, cfg, ir_generator, code_generator, stack>>
    /\ LET node == Head(agenda).stmt
           error == return_error(node, stack, table, current_return_type)
       IN  IF error # None THEN Raise(error)
           ELSE ReturnTo(<<>>) /\ UNCHANGED <<table, current_return_type>>

CheckProcedureCallStatement ==
    /\ Checking("ProcedureCallStatement")
    /\ UNCHANGED <<back_end, cfg, ir_generator, code_generator, stack>>
    /\ LET node == Head(agenda).stmt
           call_type == check_node(node.call, stack, table)
       IN  IF call_type \in Errors THEN Raise(call_type)
           ELSE ReturnTo(<<>>) /\ UNCHANGED <<table, current_return_type>>

\* check_ProcedureDef up to the loop over the body.
CheckProcedureDef ==
    /\ Checking("ProcedureDef")
    /\ UNCHANGED <<back_end, cfg, ir_generator, code_generator>>
    /\ LET node == Head(agenda).stmt
           param_types == param_types_of(node.params)
           return_type == return_type_of(node)
       IN  IF procedures_lookup(table, node.name) # <<>>
           THEN Raise(DuplicateDeclarationError) /\ UNCHANGED stack
           ELSE IF \E i \in 1..Len(param_types) : param_types[i][2] \in Errors
           THEN Raise(InvalidTypeError) /\ UNCHANGED stack
           ELSE IF return_type \in Errors
           THEN Raise(return_type) /\ UNCHANGED stack
           ELSE /\ table' = procedures_define(table, node.name, param_types,
                                              return_type)
                /\ stack' = define_params(push(stack), node.params, 1)
                /\ current_return_type' = return_type
                /\ ReturnTo(Items(node.body, "ProcedureDef.body")
                            \o <<ProcedureDefRest(current_return_type,
                                                  Head(agenda).within)>>)

\* The rest of check_ProcedureDef as it would be without line 647.
ProcedureDefReturnKeepsType ==
    /\ Checking("ProcedureDef.rest")
    /\ UNCHANGED <<back_end, cfg, ir_generator, code_generator, table,
                   current_return_type>>
    /\ stack' = pop(stack)
    /\ ReturnTo(<<>>)

\* check_ProcedureDef after the loop over the body.
ProcedureDefReturn ==
    /\ Checking("ProcedureDef.rest")
    /\ UNCHANGED <<back_end, cfg, ir_generator, code_generator, table>>
    /\ stack' = pop(stack)
    /\ current_return_type' = Head(agenda).stmt.previous_return_type
    /\ ReturnTo(<<>>)

TcNext ==
    \/ CheckDeclaration
    \/ CheckInitialization
    \/ CheckListInitialization
    \/ CheckAssignment
    \/ CheckConditional
    \/ CheckLoop
    \/ CheckReturn
    \/ CheckProcedureCallStatement
    \/ CheckProcedureDef
    \/ ProcedureDefReturn

TcSpec == TcInit /\ [][TcNext]_vars

(* ------------- TypeChecker on names with dots and indices ------------- *)
\* Statements whose names visitName builds from dots and brackets:
\*   int x;   x.x = 2;   x.x = x.x;   x = 1 + x.x;   x = display_oam_x[1];
\*   display.oam[1].x = 1;   x = display.oam[1];   int y = x.x;
\*   control.LCDon();   control_LCDon();
AccessStatements ==
    LET x == Variable("x")
        one == IntegerLiteral(1)
        oam == AttributeAccess(Variable("display"), "oam")
    IN  { Declaration("int", "x"),
          Assignment(AttributeAccess(x, "x"), IntegerLiteral(2)),
          Assignment(AttributeAccess(x, "x"), AttributeAccess(x, "x")),
          Assignment(x, BinaryOp(one, "+", AttributeAccess(x, "x"))),
          Assignment(x, ListAccess(Variable("display_oam_x"), <<one>>)),
          Assignment(AttributeAccess(ListAccess(oam, <<one>>), "x"), one),
          Assignment(x, ListAccess(oam, <<one>>)),
          Initialization("int", "y", AttributeAccess(x, "x")),
          ProcedureCallStatement(
              ProcedureCall(AttributeAccess(Variable("control"), "LCDon"),
                            <<>>)),
          ProcedureCallStatement(
              ProcedureCall(Variable("control_LCDon"), <<>>)) }

AccessPrograms == UNION {[1..n -> AccessStatements] : n \in 1..MaxStatements}

\* TypeChecker.__init__ followed by the entry of check_program, on a program
\* of these statements.
AccessInit ==
    /\ BackEndIdle
    /\ IRGeneratorIdle
    /\ CodeGeneratorIdle
    /\ program \in AccessPrograms
    /\ agenda = Items(program, "Program.statements")
    /\ stack = <<hardware_symbols>>
    /\ table = procedures_at_entry(program)
    /\ current_return_type = None
    /\ raised = None
    /\ var_types = {}

AccessNext ==
    \/ CheckDeclaration
    \/ CheckInitialization
    \/ CheckAssignment
    \/ CheckProcedureCallStatement

AccessSpec == AccessInit /\ [][AccessNext]_vars

(* ----------------------------- IRGenerator ---------------------------- *)
IRUnaryOp(op, dest, operand) ==
    IRInstruction("UnaryOp", dest, operand, None, <<>>, None, None, 0, op)
IRIndexedLoad(dest, base, index) ==
    IRInstruction("IndexedLoad", dest, base, index, <<>>, None, None, 0,
                  None)
IRIndexedStore(base, index, value) ==
    IRInstruction("IndexedStore", None, index, value, <<>>, None, None, 0,
                  base)
IRHardwareRead(dest, register) ==
    IRInstruction("HardwareRead", dest, None, None, <<>>, None, None, 0,
                  register)
IRHardwareWrite(register, value) ==
    IRInstruction("HardwareWrite", None, value, None, <<>>, None, None, 0,
                  register)
IRHardwareIndexedRead(dest, register, index) ==
    IRInstruction("HardwareIndexedRead", dest, index, None, <<>>, None, None,
                  0, register)
IRHardwareIndexedWrite(register, index, value) ==
    IRInstruction("HardwareIndexedWrite", None, index, value, <<>>, None,
                  None, 0, register)
IRHardwareCall(module, function, args) ==
    IRInstruction("HardwareCall", None, module, function, args, None, None,
                  0, None)

\* IRProgram.__init__ and IRProcedure.__init__.
IRProgram ==
    [procedures |-> <<>>, globals |-> <<>>, main_instructions |-> <<>>]
IRProcedure(name, params, return_type) ==
    [name |-> name, params |-> params, return_type |-> return_type,
     instructions |-> <<>>]

\* initialize_hardware_registers.
hardware_registers ==
    {"display_tileset0", "display_tilemap0", "display_oam", "input_Right",
     "input_Left", "input_Up", "input_Down", "input_A", "input_B",
     "input_Start", "input_Select"}

is_hardware_register(name) == name \in hardware_registers

\* The generator while it visits: the instructions added so far to the
\* procedure or main section being filled, the two counters, and the value
\* the last visit returned.
Generator(instrs, temps, labels, result) ==
    [instrs |-> instrs, temp_counter |-> temps, label_counter |-> labels,
     result |-> result]

add_instruction(g, instruction) ==
    [g EXCEPT !.instrs = Append(@, instruction)]

\* new_temp and new_label: the name handed out; the counter goes up by one.
new_temp(g) == "t" \o ToString(g.temp_counter)
new_label(g, k) == "L" \o ToString(g.label_counter + k)
took_temp(g) == [g EXCEPT !.temp_counter = @ + 1]
took_labels(g, k) == [g EXCEPT !.label_counter = @ + k]

\* The base name the access visitors compute: the name of a Variable, and
\* otherwise the node itself, written as it prints.
base_name_of(node) ==
    IF node.name.class = "Variable" THEN node.name.name ELSE repr(node.name)

RECURSIVE visit(_, _, _)
RECURSIVE visit_statements(_, _, _, _)
RECURSIVE visit_arguments(_, _, _, _, _)
RECURSIVE visit_values(_, _, _, _, _)

\* "for stmt in body: self.visit(stmt)" from the i-th statement on.
visit_statements(body, i, g, procedures) ==
    IF i > Len(body) THEN g
    ELSE visit_statements(body, i + 1, visit(body[i], g, procedures),
                          procedures)

\* visit_ProcedureCall, the loop over the arguments: the generator after
\* it, with the list of the temporaries as its result.
visit_arguments(args, i, g, arg_temps, procedures) ==
    IF i > Len(args) THEN [g EXCEPT !.result = arg_temps]
    ELSE LET a == visit(args[i], g, procedures)
         IN  visit_arguments(args, i + 1, a, Append(arg_temps, a.result),
                             procedures)

\* visit_ListInitialization: one IndexedStore per value, at str(i).
visit_values(name, values, i, g, procedures) ==
    IF i > Len(values) THEN g
    ELSE LET v == visit(values[i], g, procedures)
         IN  visit_values(name, values, i + 1,
                          add_instruction(
                              v, IRIndexedStore(name, ToString(i - 1),
                                                v.result)),
                          procedures)

\* visit: the generator after the visit_<class> method of the node.
visit(node, g, procedures) ==
    CASE node.class = "Declaration" -> g
      [] node.class = "Initialization" ->
            LET v == visit(node.value, g, procedures)
            IN  add_instruction(v, IRAssign(node.name, v.result))
      [] node.class = "Assignment" ->
            LET v == visit(node.value, g, procedures)
                target == node.target
            IN  CASE target.class = "Variable" ->
                        IF is_hardware_register(target.name)
                        THEN add_instruction(
                                 v, IRHardwareWrite(target.name, v.result))
                        ELSE add_instruction(
                                 v, IRAssign(target.name, v.result))
                  [] target.class = "ListAccess" ->
                        LET base_name == base_name_of(target)
                            x == visit(target.indices[1], v, procedures)
                        IN  IF base_name = "display.oam"
                               \/ is_hardware_register(base_name)
                            THEN add_instruction(
                                     x, IRHardwareIndexedWrite(
                                            base_name, x.result, v.result))
                            ELSE add_instruction(
                                     x, IRIndexedStore(base_name, x.result,
                                                       v.result))
                  [] target.class = "AttributeAccess" ->
                        LET base_name == base_name_of(target)
                            full_name ==
                                base_name \o "." \o target.attribute
                        IN  IF is_hardware_register(full_name)
                               \/ base_name = "display.oam"
                            THEN add_instruction(
                                     v, IRHardwareWrite(full_name, v.result))
                            ELSE add_instruction(
                                     v, IRStore(full_name, v.result))
                  [] OTHER -> v
      [] node.class = "ListInitialization" ->
            visit_values(node.name, node.values, 1, g, procedures)
      [] node.class = "Conditional" ->
            LET c == visit(node.condition, g, procedures)
                condition_temp == c.result
                true_label == new_label(c, 0)
                end_label == new_label(c, 1)
            IN  IF node.else_body # <<>>
                THEN LET false_label == new_label(c, 2)
                         j == add_instruction(
                                  add_instruction(
                                      took_labels(c, 3),
                                      IRCondJump(condition_temp, true_label,
                                                 false_label)),
                                  IRLabel(true_label))
                         t == visit_statements(node.then_body, 1, j,
                                               procedures)
                         f == add_instruction(
                                  add_instruction(t, IRJump(end_label)),
                                  IRLabel(false_label))
                         e == visit_statements(node.else_body, 1, f,
                                               procedures)
                     IN  add_instruction(e, IRLabel(end_label))
                ELSE LET j == add_instruction(
                                  add_instruction(
                                      took_labels(c, 2),
                                      IRCondJump(condition_temp, true_label,
                                                 None)),
                                  IRLabel(true_label))
                         t == visit_statements(node.then_body, 1, j,
                                               procedures)
                     IN  add_instruction(t, IRLabel(end_label))
      [] node.class = "Loop" ->
            LET start_label == new_label(g, 0)
                body_label == new_label(g, 1)
                end_label == new_label(g, 2)
                s == add_instruction(took_labels(g, 3), IRLabel(start_label))
                c == visit(node.condition, s, procedures)
                j == add_instruction(
                         add_instruction(
                             c, IRCondJump(c.result, body_label, end_label)),
                         IRLabel(body_label))
                b == visit_statements(node.body, 1, j, procedures)
            IN  add_instruction(add_instruction(b, IRJump(start_label)),
                                IRLabel(end_label))
      [] node.class = "Return" ->
            IF node.value # NoNode
            THEN LET v == visit(node.value, g, procedures)
                 IN  add_instruction(v, IRReturn(v.result))
            ELSE add_instruction(g, IRReturn(None))
      [] node.class = "ProcedureCallStatement" ->
            visit(node.call, g, procedures)
      [] node.class = "ProcedureCall" ->
            \* the arguments are the second argument of the constructor
            LET a == visit_arguments(node.params, 1, g, <<>>, procedures)
                arg_temps == a.result
                proc_name == node.name
            IN  IF proc_name.class = "AttributeAccess"
                   /\ base_name_of(proc_name) = "control"
                   /\ proc_name.attribute
                         \in {"LCDon", "LCDoff", "waitVBlank", "updateInput"}
                THEN [add_instruction(
                          a, IRHardwareCall(base_name_of(proc_name),
                                            proc_name.attribute, arg_temps))
                      EXCEPT !.result = None]
                ELSE LET name ==
                             IF proc_name.class = "AttributeAccess"
                             THEN base_name_of(proc_name) \o "."
                                      \o proc_name.attribute
                             ELSE proc_name.name
                         has_return ==
                             /\ name \in DOMAIN procedures
                             /\ procedures[name].return_type
                                   \notin {None, VoidType}
                     IN  IF has_return
                         THEN [add_instruction(
                                   took_temp(a),
                                   IRCall(name, arg_temps, new_temp(a)))
                               EXCEPT !.result = new_temp(a)]
                         ELSE [add_instruction(
                                   a, IRCall(name, arg_temps, None))
                               EXCEPT !.result = None]
      [] node.class = "BinaryOp" ->
            LET l == visit(node.left, g, procedures)
                r == visit(node.right, l, procedures)
            IN  [add_instruction(
                     took_temp(r),
                     IRBinaryOp(node.op, new_temp(r), l.result, r.result))
                 EXCEPT !.result = new_temp(r)]
      [] node.class = "UnaryOp" ->
            LET o == visit(node.operand, g, procedures)
            IN  [add_instruction(
                     took_temp(o), IRUnaryOp(node.op, new_temp(o), o.result))
                 EXCEPT !.result = new_temp(o)]
      [] node.class \in {"IntegerLiteral", "StringLiteral"} ->
            [add_instruction(took_temp(g), IRConstant(new_temp(g)))
             EXCEPT !.result = new_temp(g)]
      [] node.class = "Variable" ->
            IF is_hardware_register(node.name)
            THEN [add_instruction(
                      took_temp(g), IRHardwareRead(new_temp(g), node.name))
                  EXCEPT !.result = new_temp(g)]
            ELSE [g EXCEPT !.result = node.name]
      [] node.class = "ListAccess" ->
            LET base_name == base_name_of(node)
                x == visit(node.indices[1], g, procedures)
                result_temp == new_temp(x)
            IN  [add_instruction(
                     took_temp(x),
                     IF base_name = "display.oam"
                        \/ is_hardware_register(base_name)
                     THEN IRHardwareIndexedRead(result_temp, base_name,
                                                x.result)
                     ELSE IRIndexedLoad(result_temp, base_name, x.result))
                 EXCEPT !.result = result_temp]
      [] node.class = "AttributeAccess" ->
            LET base_name == base_name_of(node)
                full_name == base_name \o "." \o node.attribute
                result_temp == new_temp(g)
                t == [took_temp(g) EXCEPT !.result = result_temp]
            IN  IF base_name = "control"
                   /\ node.attribute
                         \in {"LCDon", "LCDoff", "waitVBlank", "updateInput"}
                THEN t
                ELSE IF is_hardware_register(full_name)
                        \/ base_name = "display.oam"
                THEN add_instruction(t, IRHardwareRead(result_temp,
                                                       full_name))
                ELSE add_instruction(t, IRLoad(result_temp, full_name))
      [] OTHER -> g

\* IRGenerator.string_to_type: a Type is returned as it is, and the type
\* checker has put a Type in place of the type string of a declaration and
\* of the return type of a procedure.
ValueError == "ValueError"
IRGenerator_string_to_type(type_str) ==
    CASE type_str \in {IntType, TilesetType, TileMapType, SpriteType,
                       VoidType, StringType, OAMEntryType,
                       ListType(IntType)} -> type_str
      [] type_str = "int" -> IntType
      [] type_str = "tileset" -> TilesetType
      [] type_str = "tilemap" -> TileMapType
      [] type_str = "sprite" -> SpriteType
      [] type_str = "void" -> VoidType
      [] OTHER -> ValueError

\* generate, lines 297-313: the procedures and the globals registered by
\* the statements from the i-th on, added to those in ir.
RECURSIVE register(_, _, _)
register(statements, i, ir) ==
    IF i > Len(statements) THEN ir
    ELSE LET statement == statements[i]
         IN  CASE statement.class = "ProcedureDef" ->
                    register(
                        statements, i + 1,
                        [ir EXCEPT !.procedures =
                            [n \in DOMAIN @ \cup {statement.name} |->
                                IF n = statement.name
                                THEN IRProcedure(
                                         statement.name,
                                         [k \in 1..Len(statement.params) |->
                                             statement.params[k].name],
                                         IRGenerator_string_to_type(
                                             return_type_of(statement)))
                                ELSE @[n]]])
               [] statement.class \in {"Declaration", "Initialization"} ->
                    register(
                        statements, i + 1,
                        [ir EXCEPT !.globals =
                            [n \in DOMAIN @ \cup {statement.name} |->
                                IF n = statement.name
                                THEN IRGenerator_string_to_type(
                                         string_to_type(statement.var_type))
                                ELSE @[n]]])
               [] OTHER -> register(statements, i + 1, ir)

\* The back end variables other than pc.
back_end_data == <<instructions, num_registers, live_in, live_out, changed,
                   allocation, live_ranges, active, spill_counter, avail,
                   pos, rewritten>>

\* compiler.intermediate_representation once the type check has returned:
\* IRGenerator() and the first loop of generate.
IntermediateRepresentation ==
    /\ pc = "check_program"
    /\ agenda = <<>>
    /\ raised = None
    /\ pc' = "generate"
    /\ ir_program' = register(program, 1, IRProgram)
    /\ temp_counter' = 0
    /\ label_counter' = 0
    /\ visited' = 0
    /\ UNCHANGED <<back_end_data, cfg, type_checker, code_generator>>

\* The second loop of generate at a ProcedureDef: the body is visited with
\* the procedure as current_procedure.
GenerateProcedure ==
    /\ pc = "generate"
    /\ visited < Len(program)
    /\ program[visited + 1].class = "ProcedureDef"
    /\ LET statement == program[visited + 1]
           procedure == ir_program.procedures[statement.name]
           g == visit_statements(
                    statement.body, 1,
                    Generator(procedure.instructions, temp_counter,
                              label_counter, None),
                    ir_program.procedures)
       IN  /\ ir_program' =
                 [ir_program EXCEPT
                     !.procedures[statement.name].instructions = g.instrs]
           /\ temp_counter' = g.temp_counter
           /\ label_counter' = g.label_counter
    /\ visited' = visited + 1
    /\ UNCHANGED <<back_end, cfg, type_checker, code_generator>>

\* The second loop of generate at any other statement: its instructions go
\* to the main section.
GenerateStatement ==
    /\ pc = "generate"
    /\ visited < Len(program)
    /\ program[visited + 1].class # "ProcedureDef"
    /\ LET g == visit(program[visited + 1],
                      Generator(ir_program.main_instructions, temp_counter,
                                label_counter, None),
                      ir_program.procedures)
       IN  /\ ir_program' = [ir_program EXCEPT !.main_instructions = g.instrs]
           /\ temp_counter' = g.temp_counter
           /\ label_counter' = g.label_counter
    /\ visited' = visited + 1
    /\ UNCHANGED <<back_end, cfg, type_checker, code_generator>>

\* generate returns the program.
GenerateReturn ==
    /\ pc = "generate"
    /\ visited = Len(program)
    /\ pc' = "generated"
    /\ UNCHANGED <<back_end_data, cfg, type_checker, ir_generator,
                   code_generator>>

\* The statements of the programs lowered: a global declared and one
\* initialised, an assignment between them, a conditional without an else
\* branch, one with both branches, one nested in another, a procedure with
\* a local variable, and an assignment between attribute accesses.
IrStatements ==
    LET x == Variable("x")
        no_else == Conditional(x, <<Assignment(x, IntegerLiteral(1))>>, <<>>)
    IN  { Declaration("int", "x"),
          Initialization("int", "y", IntegerLiteral(1)),
          Assignment(x, Variable("y")),
          no_else,
          Conditional(x, <<Assignment(x, IntegerLiteral(1))>>,
                      <<Assignment(x, IntegerLiteral(2))>>),
          Conditional(IntegerLiteral(1), <<no_else>>, <<>>),
          ProcedureDef("int", "f", <<>>,
              <<Initialization("int", "a", IntegerLiteral(1)),
                Return(Variable("a"))>>),
          Assignment(AttributeAccess(x, "x"), AttributeAccess(x, "x")) }

IrPrograms == UNION {[1..n -> IrStatements] : n \in 1..MaxStatements}

\* The compiler driver up to the IR: the program is type checked first.
IrInit ==
    /\ BackEndIdle
    /\ IRGeneratorIdle
    /\ CodeGeneratorIdle
    /\ program \in IrPrograms
    /\ agenda = Items(program, "Program.statements")
    /\ stack = <<hardware_symbols>>
    /\ table = procedures_at_entry(program)
    /\ current_return_type = None
    /\ raised = None
    /\ var_types = {}

IrNext ==
    \/ CheckDeclaration
    \/ CheckInitialization
    \/ CheckAssignment
    \/ CheckConditional
    \/ CheckReturn
    \/ CheckProcedureDef
    \/ ProcedureDefReturn
    \/ IntermediateRepresentation
    \/ GenerateProcedure
    \/ GenerateStatement
    \/ GenerateReturn

IrSpec == IrInit /\ [][IrNext]_vars

(* --------------------- CodeGenerator of codegen.py -------------------- *)
\* A file path is the sequence of its characters.
isalnum(c) == c \in {"a", "b", "x", "y", "1", "2"}

\* s.split(sep)[-1]: what follows the last sep of s.
RECURSIVE after_last(_, _)
after_last(s, sep) ==
    IF \E k \in 1..Len(s) : s[k] = sep
    THEN after_last(Tail(s), sep)
    ELSE s

\* s.split(sep)[0]: what precedes the first sep of s.
RECURSIVE before_first(_, _)
before_first(s, sep) ==
    IF s = <<>> \/ Head(s) = sep THEN <<>>
    ELSE <<Head(s)>> \o before_first(Tail(s), sep)

\* ''.join(c if c.isalnum() else '_' for c in base_name)
RECURSIVE valid_name(_)
valid_name(base_name) ==
    IF base_name = <<>> THEN ""
    ELSE (IF isalnum(Head(base_name)) THEN Head(base_name) ELSE "_")
             \o valid_name(Tail(base_name))

\* _get_label_from_path
get_label_from_path(path) ==
    "data_"
        \o valid_name(before_first(after_last(after_last(path, "/"), "\\"),
                                   "."))

\* The generator while it visits: self.code, label_counter, binary_imports.
CodeGenerator(lines, counter, imports) ==
    [code |-> lines, label_counter |-> counter, binary_imports |-> imports]

\* emit of a line that defines a label.
emit(c, label) == [c EXCEPT !.code = Append(@, label)]

\* CodeGenerator.new_label: the counter goes up first.
codegen_new_label(c, prefix, k) ==
    prefix \o "_" \o ToString(c.label_counter + k)
codegen_took_labels(c, k) == [c EXCEPT !.label_counter = @ + k]

\* _register_binary_import: a path is registered once.
register_binary_import(c, binary_path) ==
    IF \E k \in 1..Len(c.binary_imports) :
          c.binary_imports[k].path = binary_path
    THEN c
    ELSE [c EXCEPT !.binary_imports =
             Append(@, [path |-> binary_path,
                        label |-> get_label_from_path(binary_path)])]

\* _resolve_qualified_name of the name of a call.
RECURSIVE resolve_qualified_name(_)
resolve_qualified_name(node) ==
    CASE node.class = "Variable" -> node.name
      [] node.class = "AttributeAccess" ->
            resolve_qualified_name(node.name) \o "." \o node.attribute
      [] node.class = "ListAccess" -> resolve_qualified_name(node.name)
      [] OTHER -> "unknown"

RECURSIVE codegen_visit(_, _)
RECURSIVE codegen_visit_statements(_, _, _)
RECURSIVE codegen_visit_arguments(_, _, _)

\* for arg in reversed(node.args): the i-th argument and those before it.
codegen_visit_arguments(args, i, c) ==
    IF i < 1 THEN c
    ELSE codegen_visit_arguments(args, i - 1, codegen_visit(args[i], c))

codegen_visit_statements(body, i, c) ==
    IF i > Len(body) THEN c
    ELSE codegen_visit_statements(body, i + 1, codegen_visit(body[i], c))

\* CodeGenerator.visit and visit_Expression: the generator after the
\* visit_<class> method of the node, as far as labels go.  The type checker
\* has put the type of an initialization in the place of its name.
codegen_visit(node, c) ==
    CASE node.class \in {"Declaration", "IntegerLiteral", "Variable"} -> c
      [] node.class = "Initialization" ->
            IF string_to_type(node.var_type)
                  \in {TilesetType, TileMapType, SpriteType}
               /\ node.value.class = "StringLiteral"
            THEN register_binary_import(c, node.value.value)
            ELSE codegen_visit(node.value, c)
      [] node.class = "ListInitialization" -> emit(c, node.name)
      [] node.class = "Conditional" ->
            LET else_label == codegen_new_label(c, "else", 1)
                end_label == codegen_new_label(c, "endif", 2)
                n == codegen_visit(node.condition, codegen_took_labels(c, 2))
                t == codegen_visit_statements(node.then_body, 1, n)
                e == codegen_visit_statements(node.else_body, 1,
                                              emit(t, else_label))
            IN  emit(e, end_label)
      [] node.class = "Loop" ->
            LET loop_start == codegen_new_label(c, "loop_start", 1)
                loop_end == codegen_new_label(c, "loop_end", 2)
                n == codegen_visit(node.condition,
                                   emit(codegen_took_labels(c, 2),
                                        loop_start))
                b == codegen_visit_statements(node.body, 1, n)
            IN  emit(b, loop_end)
      [] node.class = "ProcedureDef" ->
            codegen_visit_statements(node.body, 1, emit(c, node.name))
      [] node.class = "ProcedureCallStatement" -> codegen_visit(node.call, c)
      [] node.class = "ProcedureCall" ->
            LET procedure_name == resolve_qualified_name(node.name)
            IN  CASE procedure_name = "control.waitforvblank" ->
                        emit(codegen_took_labels(c, 1),
                             codegen_new_label(c, "wait_vblank", 1))
                  [] procedure_name = "control.lcdoff" ->
                        emit(codegen_took_labels(c, 1),
                             codegen_new_label(c, "wait_vblank_off", 1))
                  [] OTHER ->
                        codegen_visit_arguments(node.params,
                                                Len(node.params), c)
      [] node.class = "Return" -> codegen_visit(node.value, c)
      [] node.class = "BinaryOp" -> codegen_visit(node.left, c)
      [] node.class = "StringLiteral" ->
            emit(codegen_took_labels(c, 1),
                 codegen_new_label(c, "string", 1))

\* emit_binary_imports: the label of each import and its _end label, from
\* the i-th import on.
RECURSIVE binary_import_labels(_, _)
binary_import_labels(imports, i) ==
    IF i > Len(imports) THEN <<>>
    ELSE <<imports[i].label, imports[i].label \o "_end">>
             \o binary_import_labels(imports, i + 1)

\* The type checker and the IR generator play no part.
FrontEndIdle ==
    /\ agenda = <<>>
    /\ stack = <<>>
    /\ table = <<>>
    /\ current_return_type = None
    /\ raised = None
    /\ var_types = {}
    /\ IRGeneratorIdle

\* generate: emit_header.
EmitHeader ==
    /\ pc = "emit_header"
    /\ code' = Append(code, "EntryPoint")
    /\ pc' = "visit_Program"
    /\ UNCHANGED <<back_end_data, cfg, type_checker, ir_generator,
                   codegen_label_counter, binary_imports, statement_index>>

\* visit_Program up to its loop.
VisitProgram ==
    /\ pc = "visit_Program"
    /\ statement_index = 0
    /\ code' = Append(code, "Main")
    /\ pc' = "visit_statements"
    /\ UNCHANGED <<back_end_data, cfg, type_checker, ir_generator,
                   codegen_label_counter, binary_imports, statement_index>>

\* The loop of visit_Program at its next statement.
VisitStatement ==
    /\ pc = "visit_statements"
    /\ statement_index < Len(program)
    /\ LET c == codegen_visit(program[statement_index + 1],
                              CodeGenerator(code, codegen_label_counter,
                                            binary_imports))
       IN  /\ code' = c.code
           /\ codegen_label_counter' = c.label_counter
           /\ binary_imports' = c.binary_imports
    /\ statement_index' = statement_index + 1
    /\ UNCHANGED <<back_end, cfg, type_checker, ir_generator>>

\* generate: emit_binary_imports, once visit_Program has returned.
EmitBinaryImports ==
    /\ pc = "visit_statements"
    /\ statement_index = Len(program)
    /\ code' = code \o binary_import_labels(binary_imports, 1)
    /\ pc' = "emit_vram_helpers"
    /\ UNCHANGED <<back_end_data, cfg, type_checker, ir_generator,
                   codegen_label_counter, binary_imports, statement_index>>

\* generate: emit_vram_helpers.
EmitVramHelpers ==
    /\ pc = "emit_vram_helpers"
    /\ code' = code \o <<"CopyToVRAM",
                         "wait_vblank_helper_"
                             \o ToString(codegen_label_counter + 1),
                         "copy_loop_"
                             \o ToString(codegen_label_counter + 2)>>
    /\ codegen_label_counter' = codegen_label_counter + 2
    /\ pc' = "emit_footer"
    /\ UNCHANGED <<back_end_data, cfg, type_checker, ir_generator,
                   binary_imports, statement_index>>

\* generate: emit_footer, and the text is returned.
EmitFooter ==
    /\ pc = "emit_footer"
    /\ code' = Append(code, "Halt")
    /\ pc' = "code_generated"
    /\ UNCHANGED <<back_end_data, cfg, type_checker, ir_generator,
                   codegen_label_counter, binary_imports, statement_index>>

\* The statements of the programs code is generated for: three binary
\* assets, two of them files of the same name in different directories, a
\* string, a list, a conditional, a loop, and procedures named f, Main and
\* else_1.  Each is well typed wherever it stands, and no program has one
\* twice.
CodegenStatements ==
    LET call == ProcedureCallStatement(
                    ProcedureCall(Variable("control_LCDon"), <<>>))
    IN  { Initialization("sprite", "s",
                         StringLiteral(<<"a", "/", "x", ".", "b">>)),
          Initialization("tileset", "t",
                         StringLiteral(<<"b", "/", "x", ".", "b">>)),
          Initialization("tilemap", "m", StringLiteral(<<"y", ".", "b">>)),
          Initialization("string", "g", StringLiteral(<<"y">>)),
          ListInitialization("l", <<IntegerLiteral(1)>>),
          Conditional(IntegerLiteral(1), <<call>>, <<>>),
          Loop(IntegerLiteral(1), <<call>>),
          ProcedureDef("void", "f", <<>>, <<call>>),
          ProcedureDef("void", "Main", <<>>, <<call>>),
          ProcedureDef("void", "else_1", <<>>, <<call>>) }

CodegenPrograms ==
    {p \in UNION {[1..n -> CodegenStatements] : n \in 1..MaxStatements} :
        \A i, j \in 1..Len(p) : p[i] = p[j] => i = j}

\* CodeGenerator() and the entry of generate on a program.
CodegenInit ==
    /\ instructions = <<>>
    /\ num_registers = DriverRegisters
    /\ pc = "emit_header"
    /\ live_in = <<>>
    /\ live_out = <<>>
    /\ changed = FALSE
    /\ allocation = <<>>
    /\ live_ranges = <<>>
    /\ active = <<>>
    /\ spill_counter = 0
    /\ avail = 0
    /\ pos = 0
    /\ rewritten = <<>>
    /\ cfg = <<>>
    /\ program \in CodegenPrograms
    /\ FrontEndIdle
    /\ CodeGeneratorIdle

CodegenNext ==
    \/ EmitHeader
    \/ VisitProgram
    \/ VisitStatement
    \/ EmitBinaryImports
    \/ EmitVramHelpers
    \/ EmitFooter

CodegenSpec == CodegenInit /\ [][CodegenNext]_vars

(* ------------------------------ claims -------------------------------- *)
AnalysisReturned == pc \notin {"analyze", "liveness"}

AllocationReturned == pc \in {"rewrite", "done"}

SpillSlots == SeqRange(SpillNames)

\* C1: when compute_liveness has returned, every instruction i has
\* live_in[i] = use[i] \cup (live_out[i] \ def[i]) and live_out[i] = the
\* union of live_in over the CFG successors of i; so use[i] is inside
\* live_in[i] and every live-out variable i does not define is live-in.
LivenessEquations ==
    AnalysisReturned =>
        \A i \in 1..Len(instructions) :
            /\ live_in[i] = UseVars(instructions[i]) \cup
                            (live_out[i] \ DefVars(instructions[i]))
            /\ live_out[i] =
                 UNION {live_in[s] : s \in SeqRange(Cfg(instructions, i))}
            /\ UseVars(instructions[i]) \subseteq live_in[i]
            /\ \A v \in live_out[i] :
                  v \notin DefVars(instructions[i]) => v \in live_in[i]

\* The analysis has returned for a list with a backward branch across which
\* a variable, defined elsewhere in the list, is live.
LivenessEquationsWitness ==
    /\ pc = "allocate"
    /\ \E i \in 1..Len(instructions) :
          /\ instructions[i].op = "CondJump"
          /\ \E s \in SeqRange(Cfg(instructions, i)) : s < i
          /\ \E v \in live_out[i] :
                \E j \in 1..Len(instructions) :
                    v \in DefVars(instructions[j]) /\ v \notin live_out[j]

\* The operands of an instruction: every field that names a value.
Operands(instr) ==
    ({instr.dest, instr.x, instr.y} \cup SeqRange(instr.args)) \ {None}

\* C2: after allocation and rewriting, every operand of every rewritten
\* instruction that is not a literal is a physical register name or a spill
\* slot [sp+N]; no temporary or user variable name remains.
AllocationTotality ==
    pc = "done" =>
        \A k \in 1..Len(rewritten) :
            \A o \in Operands(rewritten[k]) :
                \/ o \in DigitStrings
                \/ IsRegister(o) \/ o = "sp"
                \/ o \in SpillSlots

\* Stack pointer bookkeeping of the rewritten list: what an instruction adds
\* to sp, and the (index, sp on arrival) pairs control can reach from entry.
SpEffect(instr) ==
    IF instr.op = "BinaryOp" /\ instr.dest = "sp" /\ instr.x = "sp"
    THEN IF instr.sym = "-" THEN 0 - ParseInt(instr.y) ELSE ParseInt(instr.y)
    ELSE 0

RECURSIVE SpReach(_, _)
SpReach(instrs, seen) ==
    LET more == seen \cup
                {<<s, e[2] + SpEffect(instrs[e[1]])>> :
                    e \in seen, s \in 1..Len(instrs)}
        step == {n \in more :
                    \/ n \in seen
                    \/ \E e \in seen :
                          /\ n[1] \in SeqRange(Cfg(instrs, e[1]))
                          /\ n[2] = e[2] + SpEffect(instrs[e[1]])}
    IN IF step = seen THEN seen ELSE SpReach(instrs, step)

\* C3: in a procedure with a spill slot the rewritten list lowers sp by the
\* frame size at procedure start and raises it again at each Return: on
\* every path from entry, sp is back at its entry value when a Return is
\* reached.
ReturnRestoresSP ==
    (pc = "done" /\ HasSpill(allocation)) =>
        /\ \E k \in 1..Len(rewritten) :
              SpEffect(rewritten[k]) = 0 - SpillCount(allocation)
        /\ \A e \in SpReach(rewritten, {<<1, 0>>}) :
              rewritten[e[1]].op = "Return" => e[2] = 0

\* The reloads the rewriter puts before instruction i: positions of its
\* rewritten group that load a spill slot.
Rewritten(i) == RewriteInstruction(instructions[i], allocation)

ReloadsOf(i) ==
    {j \in 1..Len(Rewritten(i)) :
        Rewritten(i)[j].op = "Load" /\ Rewritten(i)[j].x \in SpillSlots}

\* C4: the scratch register of a reload is never a register holding a value
\* still needed: not the register of another operand of the instruction,
\* not the target of an earlier reload for the same instruction, not the
\* register of a variable live across the instruction.
ScratchRegisterSafe ==
    pc = "done" =>
        \A i \in 1..Len(instructions) : \A j \in ReloadsOf(i) :
            LET tmp == Rewritten(i)[j].dest
            IN /\ \A u \in UseVars(instructions[i]) :
                     GetAllocation(u, allocation) # tmp
               /\ \A j2 \in ReloadsOf(i) :
                     j2 < j => Rewritten(i)[j2].dest # tmp
               /\ \A v \in live_in[i] \cap live_out[i] :
                     GetAllocation(v, allocation) # tmp

\* C5: every value of the allocation map is one of b, c, d, e, h, l or a
\* spill slot [sp+N]; register a is never assigned.
AllocationValues ==
    \A v \in DOMAIN allocation :
        allocation[v] \in {"b", "c", "d", "e", "h", "l"} \cup SpillSlots

\* An allocation has been returned in which the scan placed one range in a
\* register and spilled another.
AllocationValuesWitness ==
    /\ AllocationReturned
    /\ \E k \in 1..Len(live_ranges) : live_ranges[k].register # None
    /\ \E k \in 1..Len(live_ranges) : live_ranges[k].spill_location # None

\* C6: the parameters, in argument-index order, hold b, c, d, e (the first
\* four), from the moment they are pinned and through the whole linear scan.
ParamsPinned ==
    pc \in {"built", "scan", "rewrite", "done", "error"} =>
        \A k \in 1..Len(ParamVars(instructions)) :
            k <= 4 =>
                /\ ParamVars(instructions)[k].arg_index = k - 1
                /\ GetAllocation(ParamVars(instructions)[k].dest, allocation)
                     = <<"b", "c", "d", "e">>[k]

\* The scan has finished, having placed a range in a register, for a
\* procedure with two or more parameters whose last parameter is live
\* somewhere.
ParamsPinnedWitness ==
    /\ AllocationReturned
    /\ Len(ParamVars(instructions)) \in 2..4
    /\ \E i \in 1..Len(instructions) :
          ParamVars(instructions)[Len(ParamVars(instructions))].dest
              \in live_out[i]
    /\ \E k \in 1..Len(live_ranges) : live_ranges[k].register # None

\* C7: the fifth and every later parameter is never assigned a physical
\* register.
FifthParamNeverInRegister ==
    \A k \in 1..Len(ParamVars(instructions)) :
        k > 4 =>
            ~IsRegister(GetAllocation(ParamVars(instructions)[k].dest,
                                      allocation))

\* C8: a range processed while the active ranges have reached the register
\* count: of the new range and the latest-ending active range, the one with
\* the later end gets a spill slot no other variable has, and the other one
\* holds the register.
SpillStepOutcome ==
    [][(/\ pc = "scan"
        /\ pos <= Len(live_ranges)
        /\ Len(ExpireOldIntervals(active, live_ranges[pos].start)) >= avail)
       =>
       LET new == live_ranges[pos]
           act == ExpireOldIntervals(active, new.start)
       IN /\ act # <<>>
          /\ LET cand == act[Len(act)]
             IN \E loser \in {cand.var_name, new.var_name} :
                   LET winner == IF loser = new.var_name THEN cand.var_name
                                 ELSE new.var_name
                   IN /\ cand.end > new.end => loser = cand.var_name
                      /\ new.end > cand.end => loser = new.var_name
                      /\ allocation'[loser] \in SpillSlots
                      /\ \A v \in DOMAIN allocation' :
                            v # loser => allocation'[v] # allocation'[loser]
                      /\ allocation'[winner] = cand.register
    ]_vars

ScanStarted == pc \in {"scan", "rewrite", "done", "error"}

\* C9 as claimed: the ranges are processed in non-decreasing order of start
\* index, equal starts in non-decreasing order of end index.
SortedByStartThenEnd ==
    ScanStarted =>
        \A i, j \in 1..Len(live_ranges) :
            i < j =>
                \/ live_ranges[i].start < live_ranges[j].start
                \/ /\ live_ranges[i].start = live_ranges[j].start
                   /\ live_ranges[i].end <= live_ranges[j].end

\* C9 as amended: the ranges are processed in non-decreasing order of start
\* index.
SortedByStart ==
    ScanStarted =>
        \A i, j \in 1..Len(live_ranges) :
            i < j => live_ranges[i].start <= live_ranges[j].start

\* Every range has been processed, and two of them with the same start were
\* processed the one with the later end first.
SortedByStartWitness ==
    /\ AllocationReturned
    /\ \E i, j \in 1..Len(live_ranges) :
          /\ i < j
          /\ live_ranges[i].start = live_ranges[j].start
          /\ live_ranges[i].end > live_ranges[j].end

\* Live-out sets re-derived from the ranges: v is live-out at i exactly
\* when start(v) <= i <= end(v).
LiveOutFromRanges(i) ==
    {live_ranges[k].var_name :
        k \in {n \in 1..Len(live_ranges) :
                  live_ranges[n].start <= i /\ i <= live_ranges[n].end}}

\* C10 as claimed: re-deriving the live-out sets from the ranges gives the
\* fixed-point live-out sets back.
LiveRangeRoundTrip ==
    pc = "built" =>
        \A i \in 1..Len(instructions) : LiveOutFromRanges(i) = live_out[i]

\* C10 as amended: the re-derived sets contain the fixed-point sets, and a
\* range starts and ends at indices where its variable is live-out.
LiveRangeCovers ==
    pc = "built" =>
        /\ \A i \in 1..Len(instructions) :
              live_out[i] \subseteq LiveOutFromRanges(i)
        /\ \A k \in 1..Len(live_ranges) :
              /\ live_ranges[k].start <= live_ranges[k].end
              /\ live_ranges[k].var_name \in live_out[live_ranges[k].start]
              /\ live_ranges[k].var_name \in live_out[live_ranges[k].end]

\* Ranges have been built for a variable that is live-out at two indices
\* and not at one between them.
LiveRangeCoversWitness ==
    /\ pc = "built"
    /\ \E i \in 1..Len(instructions) : LiveOutFromRanges(i) # live_out[i]

\* Whether some Label of the list carries the name, and the index of the one
\* that does.
LabelDefined(name) ==
    \E j \in 1..Len(instructions) : instructions[j] = IRLabel(name)

LabelIndex(name) ==
    CHOOSE j \in 1..Len(instructions) : instructions[j] = IRLabel(name)

TargetsDefined ==
    \A i \in 1..Len(instructions) :
        instructions[i].op \in {"Jump", "CondJump"} =>
            /\ LabelDefined(instructions[i].label)
            /\ instructions[i].false_label # None =>
                  LabelDefined(instructions[i].false_label)

\* C12: a list with a Jump or CondJump to a label that is not defined in it
\* gets through no back-end phase: liveness analysis does not return for
\* it, and it is neither allocated nor rewritten.
MissingLabelAborts ==
    ~TargetsDefined => pc \in {"analyze", "liveness", "error"}

(* --------------------------- type checker ----------------------------- *)
\* The statement check_node is about to check, while no error is raised.
AtStatement(classes) ==
    /\ raised = None
    /\ agenda # <<>>
    /\ Head(agenda).stmt.class \in classes

Declarations == {"Declaration", "Initialization", "ListInitialization"}

\* C13: a Declaration, Initialization or ListInitialization of a name that
\* the innermost scope already binds (a parameter of the procedure, seen
\* from its body, included) raises DuplicateDeclarationError, whatever
\* type the name is bound to and whatever type the statement declares.
DuplicateRejected ==
    [][(AtStatement(Declarations)
        /\ Head(agenda).stmt.name \in DOMAIN stack[Len(stack)])
       => raised' = DuplicateDeclarationError]_vars

\* A procedure body declares, with another type, the name of a parameter,
\* and the check has ended with DuplicateDeclarationError there.
DuplicateRejectedWitness ==
    /\ raised = DuplicateDeclarationError
    /\ Head(agenda).within = "ProcedureDef.body"
    /\ Head(agenda).stmt.class = "Declaration"
    /\ Len(stack) = 2
    /\ Head(agenda).stmt.name \in DOMAIN stack[2]
    /\ stack[2][Head(agenda).stmt.name] = IntType
    /\ Head(agenda).stmt.var_type = "sprite"

\* The names the statements of the program itself declare.
ProgramLevelNames ==
    {program[k].name :
        k \in {j \in 1..Len(program) : program[j].class \in Declarations}}

\* C14: the bodies of a Conditional and of a Loop are checked in a fresh
\* nested scope, so that the outermost scope only ever binds the hardware
\* symbols and the names declared by statements of the program itself,
\* never a name declared inside such a body.
BodiesHaveOwnScope ==
    DOMAIN stack[1] \subseteq DOMAIN hardware_symbols \cup ProgramLevelNames

\* C14, amended: the bodies of a Conditional and of a Loop are checked in
\* the scope of the statement itself; the scope stack is exactly one scope
\* per procedure definition being checked on top of the outermost scope.
BodiesShareScope ==
    Len(stack) =
        1 + Cardinality({k \in 1..Len(agenda) :
                            agenda[k].stmt.class = "ProcedureDef.rest"})

\* A program that is a Conditional followed by an Initialization has been
\* accepted: the else-body and the Initialization both use x, which only
\* the then-body declares, and x is bound in the outermost scope.
BodiesShareScopeWitness ==
    /\ raised = None
    /\ agenda = <<>>
    /\ Len(program) = 2
    /\ program[1].class = "Conditional"
    /\ program[1].else_body # <<>>
    /\ program[2].class = "Initialization"
    /\ "x" \in DOMAIN stack[1]
    /\ Len(stack) = 1

\* The ProcedureDefs of the program named as the call at the head of the
\* agenda.
DefinitionsOfCall ==
    {k \in 1..Len(program) :
        /\ program[k].class = "ProcedureDef"
        /\ program[k].name = get_procedure_name(Head(agenda).stmt.call)}

RejectedCall ==
    /\ raised # None
    /\ Head(agenda).stmt.class = "ProcedureCallStatement"

Reached ==
    Len(program)
    - Cardinality({k \in 1..Len(agenda) :
                      /\ agenda[k].within = "Program.statements"
                      /\ agenda[k].stmt.class # "ProcedureDef.rest"})

OperandsOf(node) ==
    CASE node.class = "BinaryOp" -> {node.left, node.right}
      [] node.class = "UnaryOp" -> {node.operand}
      [] OTHER -> {}

\* Some operand of the operator node resolves to a type other than int.
NonIntOperand(node) ==
    \E operand \in OperandsOf(node) :
        check_node(operand, stack, table) \notin Errors \cup {IntType}

\* C16: a statement whose value is a BinaryOp or UnaryOp with an operand
\* that resolves to a type other than int is rejected with
\* TypeMismatchError.  The statement is an Assignment to a declared target
\* or an Initialization of a name that its scope does not bind yet, so
\* that nothing else about it is wrong.
NonIntOperandRejected ==
    [][(/\ AtStatement({"Assignment", "Initialization"})
        /\ NonIntOperand(Head(agenda).stmt.value)
        /\ IF Head(agenda).stmt.class = "Assignment"
           THEN check_node(Head(agenda).stmt.target, stack, table)
                    \notin Errors
           ELSE Head(agenda).stmt.name \notin DOMAIN stack[Len(stack)])
       => raised' = TypeMismatchError]_vars

\* The types the target and the value of the Assignment at the head of the
\* agenda resolve to.
TargetType == check_node(Head(agenda).stmt.target, stack, table)

ValueType == check_node(Head(agenda).stmt.value, stack, table)

AtResolvedAssignment ==
    /\ AtStatement({"Assignment"})
    /\ TargetType \notin Errors
    /\ ValueType \notin Errors

\* C17: every Assignment whose target and value resolve to two different
\* types is rejected with TypeMismatchError.
AssignmentTypesMustMatch ==
    [][(AtResolvedAssignment /\ TargetType # ValueType)
       => raised' = TypeMismatchError]_vars

\* C17, amended: an Assignment whose target and value both resolve is
\* accepted exactly when the two types are equal and the target is not a
\* tileset, tilemap or sprite, or when the value is a sprite and the target
\* an int; every other one is rejected with TypeMismatchError.
AssignmentRule ==
    [][AtResolvedAssignment =>
          IF \/ /\ TargetType = ValueType
                /\ TargetType \notin {TilesetType, TileMapType, SpriteType}
             \/ /\ ValueType = SpriteType
                /\ TargetType = IntType
          THEN raised' = None /\ agenda' = Tail(agenda)
          ELSE raised' = TypeMismatchError]_vars

\* The program 'sprite x; loop (1) { int y; } y = x;' has been accepted:
\* its last statement assigns a sprite to an int.
AssignmentRuleWitness ==
    /\ raised = None
    /\ agenda = <<>>
    /\ Len(program) = 3
    /\ program[1] = Declaration("sprite", "x")
    /\ program[2].class = "Loop"
    /\ program[3] = Assignment(Variable("y"), Variable("x"))
    /\ lookup(stack, "x") = SpriteType
    /\ lookup(stack, "y") = IntType

\* check_node is inside the body of a procedure definition.
InProcedure ==
    \E k \in 1..Len(agenda) : agenda[k].stmt.class = "ProcedureDef.rest"

\* The return type the procedure definition being checked declares.
DeclaredReturnType == return_type_of(program[Reached])

ReturnOutsideProcedureRejected ==
    [][(AtStatement({"Return"}) /\ ~InProcedure) => raised' # None]_vars

\* A procedure definition has been checked to its end, and the check has
\* ended with TypeError at a later Return of the program itself, whose
\* value has the type the procedure returns.
ReturnOutsideProcedureRejectedWitness ==
    /\ raised = TypeError
    /\ Head(agenda).stmt.class = "Return"
    /\ Head(agenda).within = "Program.statements"
    /\ ~InProcedure
    /\ \E k \in 1..Reached :
          /\ program[k].class = "ProcedureDef"
          /\ return_type_of(program[k])
                = check_node(Head(agenda).stmt.value, stack, table)

\* The scopes of the stack under the innermost one.
OuterScopes(stk) == SubSeq(stk, 1, Len(stk) - 1)

\* The entry for the rest of the procedure definition being checked.
InnermostRest ==
    agenda[CHOOSE k \in 1..Len(agenda) :
              /\ agenda[k].stmt.class = "ProcedureDef.rest"
              /\ \A j \in 1..(k - 1) :
                    agenda[j].stmt.class # "ProcedureDef.rest"]

\* C20: a procedure definition puts one scope on top of the stack and
\* saves the current return type; the statements of its body leave the
\* scopes under that one and the saved type as they are; and at the end of
\* the body the scope is taken off and the saved type is the current one
\* again.  The stack and the return type after the definition are those
\* before it.
ProcedureDefRestores ==
    [][/\ (AtStatement({"ProcedureDef"}) /\ raised' = None) =>
              /\ OuterScopes(stack') = stack
              /\ InnermostRest'.stmt.previous_return_type
                    = current_return_type
       /\ (InProcedure /\ raised = None
           /\ Head(agenda).stmt.class \notin {"ProcedureDef",
                                               "ProcedureDef.rest"}) =>
              /\ Len(stack') = Len(stack)
              /\ OuterScopes(stack') = OuterScopes(stack)
              /\ InnermostRest' = InnermostRest
       /\ AtStatement({"ProcedureDef.rest"}) =>
              /\ stack' = OuterScopes(stack)
              /\ current_return_type'
                    = Head(agenda).stmt.previous_return_type
      ]_vars

\* The program declares an int x and then defines a procedure whose body
\* declares a sprite x; the definition has been checked to its end, and x
\* is an int again in a stack of one scope, with no current return type.
ProcedureDefRestoresWitness ==
    /\ raised = None
    /\ ~InProcedure
    /\ Reached >= 2
    /\ program[1] = Declaration("int", "x")
    /\ program[2].class = "ProcedureDef"
    /\ Declaration("sprite", "x") \in SeqRange(program[2].body)
    /\ Len(agenda) = Len(program) - 2
    /\ Len(stack) = 1
    /\ lookup(stack, "x") = IntType
    /\ current_return_type = None

(* ------------------- allocation and liveness, again ------------------- *)
\* C27: when allocate_procedure has returned, two distinct variables that
\* are in the live-out set of one instruction and that both have a
\* physical register do not have the same one, pinned parameters included.
NoSharedRegister ==
    AllocationReturned =>
        \A i \in 1..Len(live_out) :
            \A u, v \in live_out[i] :
                (/\ u # v
                 /\ u \in DOMAIN allocation
                 /\ v \in DOMAIN allocation
                 /\ IsRegister(allocation[u])
                 /\ IsRegister(allocation[v]))
                => allocation[u] # allocation[v]

\* C28: for a procedure with at most four parameters, allocate_procedure
\* does not end in an internal failure, whether the scanner was made for 4
\* or for 6 registers; the spill step is not entered with an empty active
\* list.
AllocatorNeverFails ==
    Len(ParamVars(instructions)) <= Len(RegisterOrder) => pc # "error"

\* C29: the iteration of compute_liveness terminates on every instruction
\* list, loops in the CFG or not: a round comes in which no live-in and no
\* live-out set changes, and the while loop is left.
LivenessTerminates ==
    /\ <>(pc = "liveness" /\ ~changed)
    /\ <>AnalysisReturned

\* The analysis has returned on a list with a jump back to an earlier
\* instruction, along which a variable is live.
LivenessTerminatesWitness ==
    /\ AnalysisReturned
    /\ \E i \in 1..Len(instructions) :
          /\ instructions[i].op \in {"Jump", "CondJump"}
          /\ \E j \in SeqRange(Cfg(instructions, i)) :
                /\ j < i
                /\ \E v \in live_out[i] : v \in live_in[j]

\* The names the instructions define or use.
NamesOf(instrs) ==
    UNION {DefVars(instrs[k]) \cup UseVars(instrs[k]) : k \in 1..Len(instrs)}

\* A CFG path of at most steps edges starts at instruction j and ends at an
\* instruction that uses v, and no instruction on it before that one
\* defines v.
RECURSIVE UseAhead(_, _, _, _)
UseAhead(instrs, v, j, steps) ==
    \/ v \in UseVars(instrs[j])
    \/ /\ steps > 0
       /\ v \notin DefVars(instrs[j])
       /\ \E s \in SeqRange(Cfg(instrs, j)) : UseAhead(instrs, v, s, steps - 1)

\* C30: when compute_liveness has returned, v is in live_out[i] exactly
\* when a CFG path from a successor of i leads to an instruction that uses
\* v with no definition of v before that use on the path.  A path that
\* exists can be taken without visiting an instruction twice, so paths of
\* as many edges as there are instructions are all that matter.
LiveOutIsUseAhead ==
    AnalysisReturned =>
        \A i \in 1..Len(instructions) :
            \A v \in NamesOf(instructions) :
                v \in live_out[i] <=>
                    \E s \in SeqRange(Cfg(instructions, i)) :
                        UseAhead(instructions, v, s, Len(instructions))

\* The analysis has returned; a variable is live out of an instruction
\* none of whose successors uses it, so that the path to the use has more
\* than one instruction, and another instruction has a successor from
\* which a use of a variable lies ahead only behind a definition of it.
LiveOutIsUseAheadWitness ==
    /\ AnalysisReturned
    /\ \E i \in 1..Len(instructions) : \E v \in live_out[i] :
          \A s \in SeqRange(Cfg(instructions, i)) :
              v \notin UseVars(instructions[s])
    /\ \E i \in 1..Len(instructions) : \E v \in NamesOf(instructions) :
          /\ v \notin live_out[i]
          /\ \E s \in SeqRange(Cfg(instructions, i)) :
                /\ v \in DefVars(instructions[s])
                /\ v \notin UseVars(instructions[s])
                /\ \E u \in SeqRange(Cfg(instructions, s)) :
                      v \in UseVars(instructions[u])

(* ------------------ claims: names with dots and indices --------------- *)
\* The statement at the head of the agenda is a call written module.fn().
AtModuleCall ==
    /\ pc = "check_program"
    /\ agenda # <<>>
    /\ Head(agenda).stmt.class = "ProcedureCallStatement"
    /\ Head(agenda).stmt.call.name.class = "AttributeAccess"
    /\ Head(agenda).stmt.call.name.name.class = "Variable"

\* The name module_fn of a call written module.fn().
CanonicalName(call) == call.name.name.name \o "_" \o call.name.attribute

\* C21: a call written module.fn() is looked up under the name module_fn:
\* when the procedure table holds module_fn, the check does not end at the
\* call.
ModuleCallResolves ==
    (AtModuleCall /\ CanonicalName(Head(agenda).stmt.call) \in DOMAIN table)
        => raised = None

\* The target of the Assignment at the head of the agenda is an attribute
\* access on a variable bound to int, and int has no attribute map.
AtAttributeOfInt ==
    /\ pc = "check_program"
    /\ agenda # <<>>
    /\ Head(agenda).stmt.class = "Assignment"
    /\ Head(agenda).stmt.target.class = "AttributeAccess"
    /\ Head(agenda).stmt.target.name.class = "Variable"
    /\ lookup(stack, Head(agenda).stmt.target.name.name) = IntType

\* C22: an attribute access whose attribute is not in the attribute map of
\* its base type is rejected with InvalidAttributeError: when the check ends
\* at an assignment to x.x with x an int, that is the error raised.
InvalidAttributeRejected ==
    (AtAttributeOfInt /\ raised # None) => raised = InvalidAttributeError

\* check_program has returned without an error.
CheckSucceeded == pc = "check_program" /\ agenda = <<>> /\ raised = None

\* C23: after a check that succeeded, every expression node a handler
\* returned from has a var_type, and it is not None.
EveryExpressionTyped ==
    CheckSucceeded =>
        \A stored \in var_types :
            stored.var_type # <<>> /\ stored.var_type # <<None>>

(* --------------------------- claims: the IR --------------------------- *)
Generated == pc = "generated"

\* The instruction lists of the generated program: the main section and
\* the body of every procedure.
InstructionLists ==
    {ir_program.main_instructions}
    \cup {ir_program.procedures[n].instructions :
            n \in DOMAIN ir_program.procedures}

\* The conditional jump at i has two different successors; the first is
\* the label it names as true, which nothing else leads to, and the second
\* is another label.
ConditionalLowered(instrs, i) ==
    LET successors == Cfg(instrs, i)
    IN  /\ instrs[i].x # None
        /\ Len(successors) = 2
        /\ instrs[successors[1]] = IRLabel(instrs[i].label)
        /\ \A k \in 1..Len(instrs) :
              successors[1] \in SeqRange(Cfg(instrs, k)) => k = i
        /\ successors[2] # successors[1]
        /\ instrs[successors[2]].op = "Label"

\* C24: every Conditional is lowered with fresh labels to a CondJump on the
\* condition temporary; when the condition is zero control goes to the else
\* label, or to the end label when there is no else branch, without passing
\* through the then-body, and the then-body is entered only through the
\* true label.
ConditionalSkipsThenBody ==
    Generated =>
        \A instrs \in InstructionLists :
            /\ LabelNamesUnique(instrs)
            /\ \A i \in 1..Len(instrs) :
                  instrs[i].op = "CondJump" => ConditionalLowered(instrs, i)

\* The names an instruction has as operands.
OperandNames(instr) ==
    ({instr.dest, instr.x, instr.y} \cup SeqRange(instr.args))
        \ ({None} \cup DigitStrings)

NamesIn(instrs) == UNION {OperandNames(instrs[k]) : k \in 1..Len(instrs)}

Temporaries == {"t" \o ToString(k) : k \in 0..(temp_counter - 1)}

HardwareSymbols == hardware_registers \cup DOMAIN hardware_symbols

\* The procedure of the generated program, and its instructions, for the
\* k-th statement of the program.
ProceduresGenerated ==
    {k \in 1..Len(program) : program[k].class = "ProcedureDef"}

\* C25: every name that is an operand in the generated IR is a registered
\* global, a parameter of the enclosing procedure, a compiler-generated
\* temporary, or a known hardware symbol.
NamesAreScoped ==
    Generated =>
        /\ NamesIn(ir_program.main_instructions)
              \subseteq DOMAIN ir_program.globals \cup Temporaries
                            \cup HardwareSymbols
        /\ \A n \in DOMAIN ir_program.procedures :
              NamesIn(ir_program.procedures[n].instructions)
                  \subseteq DOMAIN ir_program.globals
                                \cup SeqRange(ir_program.procedures[n].params)
                                \cup Temporaries \cup HardwareSymbols

(* ------------------------ claims: the assembly ------------------------ *)
\* C26: every label of the emitted assembly text is defined exactly once:
\* counter-generated labels, procedure labels, fixed runtime labels and
\* binary-asset labels never coincide.
LabelsDefinedOnce ==
    pc = "code_generated" =>
        \A i, j \in 1..Len(code) : code[i] = code[j] => i = j

====
